---- MODULE Spec2Model ----
(***************************************************************************)
(* A model of the document/markup core of math-server:                     *)
(*   - questions/services/docx_parser.py  (segmenter and post-processing)  *)
(*   - questions/services/omml_converter.py (OMML -> LaTeX)                 *)
(*   - questions/services/docx_parser.py  (package reader, media index)    *)
(*   - questions/services/latex_converter.py (sanitizer, OCR stage)        *)
(*   - questions/services/image_converter.py, pipeline.py (WMF -> PNG)     *)
(*                                                                         *)
(* Strings are sequences of tokens.  In document text a token is one       *)
(* character, except that each literal the code only ever tests with       *)
(* `in`, `==`, `startswith` or `replace` (the three section markers, the   *)
(* headings of SECTION_TYPE_MAP, a header keyword of the noise filter) is  *)
(* one token.  The tokens are ASCII names of the characters they stand     *)
(* for:                                                                    *)
(*    "<FWDOT>"  U+FF0E  fullwidth full stop                               *)
(*    "<PAUSE>"  U+3001  ideographic comma                                 *)
(*    "<ANS>"    the marker  【答案】                                       *)
(*    "<ANA>"    the marker  【分析】                                       *)
(*    "<DET>"    the marker  【详解】                                       *)
(*    "<H1>".."<H4>"  the headings 一、单选题 二、多选题 三、填空题 四、解答题 *)
(*    "<KW2026>" "<KWSCHOOL>" "<KWNAMEFW>" "<KWSCHOOLFW>" "<KWNAME>"       *)
(*               the header keywords 2026年 学校: 姓名： 学校： 姓名:        *)
(***************************************************************************)
EXTENDS Integers, Sequences, FiniteSets, TLC

VARIABLES
    paragraphs_blocks,     \* parse_docx: the paragraphs the extractor yielded
    filtered,              \* parse_docx: the paragraphs the noise filter kept
    questions,             \* _split_into_questions: closed questions
    current,               \* _split_into_questions: the open question or None
    state,                 \* _split_into_questions: the active section
    current_section_type,  \* _split_into_questions: the ambient question type
    result,                \* parse_docx: the returned records
    pc,                    \* position of the run: "idle", "split", "done"
    mergeIn, mergeOnce, mergeTwice, mergePc,
                           \* _merge_consecutive_text_blocks applied as a function
    ommlIn, ommlOut, ommlPc,
                           \* omml_to_latex applied as a function
    pkg,                   \* the package parse_docx opens: which parts it holds
    rels,                  \* _get_rels: relationship id -> media path
    media_index_map,       \* media path -> asset id
    next_asset_index,      \* the id the next new media path gets
    yielded,               \* the blocks the paragraphs yielded, in order
    handled,               \* history: the image runs _handle_run resolved
    asset_files,           \* the asset directory: file name -> media path written
    readerPc,              \* "idle", "rels", "body", "runs", "done", "raised"
    sanIn, sanOut, sanPc,  \* sanitize_latex applied as a function
    tools,                 \* which external renderers are installed
    use_latex,             \* process_docx: the caller's toggle
    wmf_files,             \* the sorted *.wmf files: how each renderer fares on each
    method,                \* convert_wmf_to_png: the selected method or None
    wmfIdx,                \* convert_wmf_to_png: position of the conversion loop
    png_exists,            \* per file: the .png beside it exists
    attempts,              \* history, per file: renderer invocations on it
    enhanced,              \* history, per file: _enhance_for_ocr passes on its png
    wmfStats,              \* the result dict: total, success
    wmfPc,                 \* "idle", "select", "loop", "final", "done"
    ocrEnv,                \* how _get_latex_ocr fares
    ocrBlocks,             \* convert_to_latex: the content blocks of the questions
    ocrBefore,             \* history: the content blocks at the call
    ocrStats,              \* convert_to_latex: the returned stats
    ocrReturn,             \* recognize_formula_image: the returned value
    ocrPc,                 \* "idle", "call", "done", "raised"
    rwIn, rwOut, rwPc,     \* replace_wmf_urls applied as a function
    expEnv,                \* how the LaTeX-to-MathML steps fare on each formula
    expBlocks,             \* _add_blocks_to_paragraph: the blocks to write
    expIdx,                \* _add_blocks_to_paragraph: position of the loop
    expParas,              \* the paragraphs written: what each holds, in order
    expPc,                 \* "idle", "loop", "done", "raised"
    task,                  \* the UploadTask record in the database
    mem,                   \* the task object run_parse_task holds
    tmp_file,              \* the temporary docx of the task exists
    raising,               \* run_parse_task: the text of the exception in flight
    unlinked,              \* history: how the unlink of line 58 fared
    taskPc,                \* run_parse_task: "idle", "get", ..., "returned", "raised"
    plDoc,                 \* per run of process_docx: the document
    plUse,                 \* per run: use_latex
    plEnv,                 \* per run: how the external services fare
    plPc,                  \* per run: the stage reached
    plSession,             \* per run: the session id
    plQuestions,           \* per run: the blocks of the question
    plStats,               \* per run: the stats
    uploads,               \* MEDIA_ROOT/uploads: session id -> files of doc-assets
    _im_error_shown        \* image_converter.py: the module-level flag

segVars == <<paragraphs_blocks, filtered, questions, current, state,
             current_section_type, result, pc>>
mergeVars == <<mergeIn, mergeOnce, mergeTwice, mergePc>>
ommlVars == <<ommlIn, ommlOut, ommlPc>>
readerVars == <<pkg, rels, media_index_map, next_asset_index, yielded,
                handled, asset_files, readerPc>>
sanVars == <<sanIn, sanOut, sanPc>>
wmfVars == <<tools, use_latex, wmf_files, method, wmfIdx, png_exists, attempts,
             enhanced, wmfStats, wmfPc>>
ocrVars == <<ocrEnv, ocrBlocks, ocrBefore, ocrStats, ocrReturn, ocrPc>>
rwVars == <<rwIn, rwOut, rwPc>>
expVars == <<expEnv, expBlocks, expIdx, expParas, expPc>>
taskVars == <<task, mem, tmp_file, raising, unlinked, taskPc>>
plVars == <<plDoc, plUse, plEnv, plPc, plSession, plQuestions, plStats, uploads,
            _im_error_shown>>
finalVars == <<rwVars, expVars, taskVars, plVars>>
laterVars == <<readerVars, sanVars, wmfVars, ocrVars, finalVars>>
exceptReader == <<segVars, mergeVars, ommlVars, sanVars, wmfVars, ocrVars,
                 finalVars>>
exceptSan == <<segVars, mergeVars, ommlVars, readerVars, wmfVars, ocrVars,
                 finalVars>>
exceptWmf == <<segVars, mergeVars, ommlVars, readerVars, sanVars, ocrVars,
                 finalVars>>
exceptOcr == <<segVars, mergeVars, ommlVars, readerVars, sanVars, wmfVars,
                 finalVars>>
earlierVars == <<segVars, mergeVars, ommlVars, readerVars, sanVars, wmfVars, ocrVars>>
exceptRw == <<earlierVars, expVars, taskVars, plVars>>
exceptExp == <<earlierVars, rwVars, taskVars, plVars>>
exceptTask == <<earlierVars, rwVars, expVars, plVars>>
exceptPl == <<earlierVars, rwVars, expVars, taskVars>>
vars == <<segVars, mergeVars, ommlVars, laterVars>>

---------------------------------------------------------------------------
(* Bounds *)

MaxParas == 4          \* paragraphs of one document
MaxMergeBlocks == 3    \* blocks of a list handed to the merge function alone
MaxKids == 2           \* children of the top-level m:oMath

---------------------------------------------------------------------------
(* Characters and string functions of Python that the code uses *)

FWDOT == "<FWDOT>"
DOT == "."
PAUSE == "<PAUSE>"
SP == " "
NL == "\n"
ANS == "<ANS>"
ANA == "<ANA>"
DET == "<DET>"

Digits == {"0", "1", "2", "3", "4", "5", "6", "7", "8", "9"}

DigitValue(c) ==
    CASE c = "0" -> 0 [] c = "1" -> 1 [] c = "2" -> 2 [] c = "3" -> 3
      [] c = "4" -> 4 [] c = "5" -> 5 [] c = "6" -> 6 [] c = "7" -> 7
      [] c = "8" -> 8 [] c = "9" -> 9

\* str.strip() and the regex class \s: whitespace, the newline included
IsSpace(c) == c \in {SP, NL}

RECURSIVE LStrip(_)
LStrip(s) == IF s # <<>> /\ IsSpace(Head(s)) THEN LStrip(Tail(s)) ELSE s

RECURSIVE RStrip(_)
RStrip(s) ==
    IF s # <<>> /\ IsSpace(s[Len(s)]) THEN RStrip(SubSeq(s, 1, Len(s) - 1)) ELSE s

Strip(s) == RStrip(LStrip(s))

RECURSIVE DigitPrefixLen(_)
DigitPrefixLen(s) ==
    IF s # <<>> /\ Head(s) \in Digits THEN 1 + DigitPrefixLen(Tail(s)) ELSE 0

\* re.match(r"^\d+[<stops>]", s)
MatchNumeral(s, stops) ==
    LET n == DigitPrefixLen(s)
    IN  n >= 1 /\ Len(s) > n /\ s[n + 1] \in stops

RECURSIVE IntOf(_)
IntOf(ds) == IF ds = <<>> THEN 0
             ELSE 10 * IntOf(SubSeq(ds, 1, Len(ds) - 1)) + DigitValue(ds[Len(ds)])

\* int(re.match(r"^(\d+)[...]", s).group(1))
NumeralValue(s) == IntOf(SubSeq(s, 1, DigitPrefixLen(s)))

\* re.sub(r"^\d+[<stops>]\s*", "", s, count=1)
SubNumeral(s, stops) ==
    IF MatchNumeral(s, stops)
    THEN LStrip(SubSeq(s, DigitPrefixLen(s) + 2, Len(s)))
    ELSE s

\* marker in s
Contains(s, tok) == \E i \in 1..Len(s) : s[i] = tok

\* s.startswith(marker)
StartsWith(s, tok) == s # <<>> /\ Head(s) = tok

\* s.replace(marker, "")
RemoveAll(s, tok) == SelectSeq(s, LAMBDA c : c # tok)

RECURSIVE Concat(_)
Concat(ss) == IF ss = <<>> THEN <<>> ELSE Head(ss) \o Concat(Tail(ss))

---------------------------------------------------------------------------
(* Content blocks *)

Text(c) == [type |-> "text", content |-> c]
Latex(c) == [type |-> "latex", content |-> c]
Image(u) == [type |-> "image", url |-> u]

\* b.get("type") == "text" and b.get("content")
IsNonEmptyText(b) == b.type = "text" /\ b.content # <<>>

\* b.get("content", "") of a text block
ContentOf(b) == IF "content" \in DOMAIN b THEN b.content ELSE <<>>

RECURSIVE _get_paragraph_text(_)
_get_paragraph_text(blocks) ==
    IF blocks = <<>> THEN <<>>
    ELSE (IF Head(blocks).type = "text" THEN ContentOf(Head(blocks)) ELSE <<>>)
         \o _get_paragraph_text(Tail(blocks))

---------------------------------------------------------------------------
(* _split_into_questions *)

None == [type |-> "None"]

Headings == {"<H1>", "<H2>", "<H3>", "<H4>"}

\* a slip in the table: the second heading given the first one's type
SECTION_TYPE_MAP_Slip(h) ==
    CASE h = "<H1>" -> "single_choice"
      [] h = "<H2>" -> "single_choice"
      [] h = "<H3>" -> "fill_blank"
      [] h = "<H4>" -> "solution"

SECTION_TYPE_MAP(h) ==
    CASE h = "<H1>" -> "single_choice"
      [] h = "<H2>" -> "multiple_choice"
      [] h = "<H3>" -> "fill_blank"
      [] h = "<H4>" -> "solution"

\* stripped in SECTION_TYPE_MAP: the whole trimmed text is one heading
IsHeading(stripped) == Len(stripped) = 1 /\ stripped[1] \in Headings

\* the separator added whatever the two lists hold
_append_with_break_Always(target_list, blocks) ==
    target_list \o <<Text(<<NL>>)>> \o blocks

\* lines 222-226
_append_with_break(target_list, blocks) ==
    IF target_list # <<>> /\ blocks # <<>>
    THEN target_list \o <<Text(<<NL>>)>> \o blocks
    ELSE target_list \o blocks

\* lines 259-266: the numeral is cut from every non-empty text block
RECURSIVE StripNumeralBlocks(_)
StripNumeralBlocks(blocks) ==
    IF blocks = <<>> THEN <<>>
    ELSE LET b == Head(blocks)
             content == SubNumeral(b.content, {FWDOT, DOT})
         IN  (IF IsNonEmptyText(b)
              THEN (IF content # <<>> THEN <<Text(content)>> ELSE <<>>)
              ELSE <<b>>)
             \o StripNumeralBlocks(Tail(blocks))

\* lines 276-287, 293-304, 310-321: the marker is cut from every text block
\* that holds it, and that block is trimmed
RECURSIVE StripMarkerBlocks(_, _)
StripMarkerBlocks(blocks, marker) ==
    IF blocks = <<>> THEN <<>>
    ELSE LET b == Head(blocks)
             content == Strip(RemoveAll(b.content, marker))
         IN  (IF IsNonEmptyText(b) /\ Contains(b.content, marker)
              THEN (IF content # <<>> THEN <<Text(content)>> ELSE <<>>)
              ELSE <<b>>)
             \o StripMarkerBlocks(Tail(blocks), marker)

NewQuestion(num, qtype) ==
    [index |-> num, questionType |-> qtype, questionBody |-> <<>>,
     answer |-> <<>>, analysis |-> <<>>, detailedSolution |-> <<>>]

\* line 244
OpensQuestion(stripped) == MatchNumeral(stripped, {FWDOT, DOT})

\* line 274
SwitchesToAnswer(stripped) == Contains(stripped, ANS)

\* line 291
SwitchesToAnalysis(stripped) == StartsWith(stripped, ANA)

\* line 308
SwitchesToDetail(stripped) == StartsWith(stripped, DET)

\* One iteration of the loop of lines 236-332 on the segmenter state
\* s = [questions, current, state, current_section_type].
SplitStep(s, blocks) ==
    LET stripped == Strip(_get_paragraph_text(blocks))
    IN  IF IsHeading(stripped)
        THEN [s EXCEPT !.current_section_type = SECTION_TYPE_MAP(stripped[1])]
        ELSE IF OpensQuestion(stripped)
        THEN [s EXCEPT
                !.questions = IF s.current # None
                              THEN Append(s.questions, s.current)
                              ELSE s.questions,
                !.current = [NewQuestion(NumeralValue(stripped),
                                         s.current_section_type)
                             EXCEPT !.questionBody = StripNumeralBlocks(blocks)],
                !.state = "body"]
        ELSE IF s.current = None
        THEN s
        ELSE IF SwitchesToAnswer(stripped)
        THEN [s EXCEPT
                !.state = "answer",
                !.current.answer =
                    _append_with_break(@, StripMarkerBlocks(blocks, ANS))]
        ELSE IF SwitchesToAnalysis(stripped)
        THEN [s EXCEPT
                !.state = "analysis",
                !.current.analysis =
                    _append_with_break(@, StripMarkerBlocks(blocks, ANA))]
        ELSE IF SwitchesToDetail(stripped)
        THEN [s EXCEPT
                !.state = "detailedSolution",
                !.current.detailedSolution =
                    _append_with_break(@, StripMarkerBlocks(blocks, DET))]
        ELSE CASE s.state = "body" ->
                    [s EXCEPT !.current.questionBody = _append_with_break(@, blocks)]
               [] s.state = "answer" ->
                    [s EXCEPT !.current.answer = _append_with_break(@, blocks)]
               [] s.state = "analysis" ->
                    [s EXCEPT !.current.analysis = _append_with_break(@, blocks)]
               [] s.state = "detailedSolution" ->
                    [s EXCEPT !.current.detailedSolution = _append_with_break(@, blocks)]

\* the end of the stream without lines 334-335
SplitEnd_NoFlush(s) == s.questions

\* lines 334-336: the end of the stream
SplitEnd(s) == IF s.current # None THEN Append(s.questions, s.current)
               ELSE s.questions

---------------------------------------------------------------------------
(* _merge_consecutive_text_blocks *)

\* lines 347-351: adjacent text blocks are joined
RECURSIVE JoinTextRuns(_, _)
JoinTextRuns(res, blocks) ==
    IF blocks = <<>> THEN res
    ELSE LET b == Head(blocks)
             n == Len(res)
         IN  IF b.type = "text" /\ n > 0 /\ res[n].type = "text"
             THEN JoinTextRuns(
                    [res EXCEPT ![n] = Text(ContentOf(res[n]) \o ContentOf(b))],
                    Tail(blocks))
             ELSE JoinTextRuns(Append(res, b), Tail(blocks))

\* re.split(r"\n", content): without the group the newlines are lost
RECURSIVE SplitNewlines_NoGroup(_, _)
SplitNewlines_NoGroup(acc, content) ==
    IF content = <<>>
    THEN (IF acc # <<>> THEN <<acc>> ELSE <<>>)
    ELSE IF Head(content) = NL
         THEN (IF acc # <<>> THEN <<acc>> ELSE <<>>)
              \o SplitNewlines_NoGroup(<<>>, Tail(content))
         ELSE SplitNewlines_NoGroup(Append(acc, Head(content)), Tail(content))

\* re.split(r"(\n)", content) without its empty parts (lines 360-363)
RECURSIVE SplitNewlines(_, _)
SplitNewlines(acc, content) ==
    IF content = <<>>
    THEN (IF acc # <<>> THEN <<acc>> ELSE <<>>)
    ELSE IF Head(content) = NL
         THEN (IF acc # <<>> THEN <<acc>> ELSE <<>>) \o <<(<<NL>>)>>
              \o SplitNewlines(<<>>, Tail(content))
         ELSE SplitNewlines(Append(acc, Head(content)), Tail(content))

RECURSIVE TextBlocks(_)
TextBlocks(parts) ==
    IF parts = <<>> THEN <<>> ELSE <<Text(Head(parts))>> \o TextBlocks(Tail(parts))

\* lines 354-364
RECURSIVE SplitTextBlocks(_)
SplitTextBlocks(blocks) ==
    IF blocks = <<>> THEN <<>>
    ELSE LET b == Head(blocks)
         IN  (IF b.type # "text" THEN <<b>>
              ELSE TextBlocks(SplitNewlines(<<>>, ContentOf(b))))
             \o SplitTextBlocks(Tail(blocks))

\* the merge without its second loop
_merge_without_split(blocks) == JoinTextRuns(<<>>, blocks)

_merge_consecutive_text_blocks(blocks) ==
    IF blocks = <<>> THEN blocks
    ELSE SplitTextBlocks(JoinTextRuns(<<>>, blocks))

---------------------------------------------------------------------------
(* parse_docx *)

\* line 392
NoiseKeywords == {"<KW2026>", "<KWSCHOOL>", "<KWNAMEFW>", "<KWSCHOOLFW>", "<KWNAME>"}

\* lines 390-395: the paragraphs the noise filter drops
IsFilteredOut(blocks) ==
    LET t == Strip(_get_paragraph_text(blocks))
    IN  \/ \E kw \in NoiseKeywords : Contains(t, kw)
        \/ (t = <<>> /\ Len(blocks) = 0)

SectionKeys == {"questionBody", "answer", "analysis", "detailedSolution"}

\* lines 401-404
MergeSections(q) ==
    [k \in DOMAIN q |->
        IF k \in SectionKeys /\ q[k] # <<>>
        THEN _merge_consecutive_text_blocks(q[k]) ELSE q[k]]

RemoveAt(seq, i) == SubSeq(seq, 1, i - 1) \o SubSeq(seq, i + 1, Len(seq))

\* lines 408-422: the numeral is cut once more from the first non-empty text
\* block of the body; a block left blank by it is removed
StripBodyIndex(body) ==
    LET idx == {i \in 1..Len(body) : IsNonEmptyText(body[i])}
    IN  IF idx = {} THEN body
        ELSE LET i == CHOOSE j \in idx : \A k \in idx : j <= k
                 content == SubNumeral(body[i].content, {FWDOT, DOT, PAUSE})
             IN  IF Strip(content) = <<>> THEN RemoveAt(body, i)
                 ELSE IF content # body[i].content
                      THEN [body EXCEPT ![i] = [@ EXCEPT !.content = content]]
                      ELSE body

StripIndex(q) == [q EXCEPT !.questionBody = StripBodyIndex(@)]

\* the clean-up left out
CleanEmpty_KeepAll(q) == q

\* lines 425-428
CleanEmpty(q) ==
    LET dead == {k \in {"analysis", "detailedSolution"} : k \in DOMAIN q /\ q[k] = <<>>}
    IN  [k \in (DOMAIN q) \ dead |-> q[k]]

\* lines 400-430 on one question
PostProcess(q) == CleanEmpty(StripIndex(MergeSections(q)))

RECURSIVE PostProcessAll(_)
PostProcessAll(qs) ==
    IF qs = <<>> THEN <<>> ELSE <<PostProcess(Head(qs))>> \o PostProcessAll(Tail(qs))

---------------------------------------------------------------------------
(* The documents: paragraphs as the extractor yields them (never empty, and
   no empty text block: lines 116-117, 164-165, 189-190) *)

Paragraphs ==
    { <<Text(<<"<H1>">>)>>,                                \* 一、单选题
      <<Text(<<"<H2>">>)>>,                                \* 二、多选题
      <<Text(<<"1", FWDOT, "a">>)>>,                       \* 1．a
      <<Text(<<"2", FWDOT, "1", DOT, "5">>)>>,             \* 2．1.5
      <<Text(<<"3", DOT, SP>>), Latex(<<"x">>), Text(<<"1", DOT, "b">>)>>,
                                                           \* 3. $x$1.b
      <<Text(<<ANS, "b">>)>>,                              \* 【答案】b
      <<Text(<<"a", ANS>>), Latex(<<"x">>), Text(<<ANS, SP, "b">>)>>,
                                                           \* a【答案】$x$【答案】 b
      <<Text(<<ANA>>)>>,                                   \* 【分析】
      <<Text(<<"a", ANA, "b">>)>>,                         \* a【分析】b
      <<Text(<<DET>>), Latex(<<"x">>)>>,                   \* 【详解】$x$
      <<Text(<<"a", NL>>), Text(<<"b">>), Image("u1")>>,   \* a<newline>b <img>
      <<Text(<<"<KWSCHOOL>", "a">>)>>,                     \* 学校:a
      <<Text(<<"4", DOT, "<KW2026>", "a">>)>> }            \* 4.2026年a

SegState == [questions |-> questions, current |-> current, state |-> state,
             current_section_type |-> current_section_type]

SegInit ==
    /\ paragraphs_blocks = <<>>
    /\ filtered = <<>>
    /\ questions = <<>>
    /\ current = None
    /\ state = "none"
    /\ current_section_type = "single_choice"
    /\ result = <<>>
    /\ pc = "scan"

SegIdle ==
    /\ paragraphs_blocks = <<>>
    /\ filtered = <<>>
    /\ questions = <<>>
    /\ current = None
    /\ state = "none"
    /\ current_section_type = "single_choice"
    /\ result = <<>>
    /\ pc = "idle"

\* The extractor yields a paragraph that the noise filter drops.
DropParagraph(blocks) ==
    /\ pc = "scan"
    /\ Len(paragraphs_blocks) < MaxParas
    /\ IsFilteredOut(blocks)
    /\ paragraphs_blocks' = Append(paragraphs_blocks, blocks)
    /\ UNCHANGED <<filtered, questions, current, state, current_section_type,
                   result, pc>>
    /\ UNCHANGED <<mergeVars, ommlVars, laterVars>>

\* The extractor yields a paragraph that the filter keeps, and the segmenter
\* takes it.  (The three loops of parse_docx run here in lock step: an
\* iteration of each reads only the paragraph and the loop's own state.)
SegmentParagraph(blocks) ==
    /\ pc = "scan"
    /\ Len(paragraphs_blocks) < MaxParas
    /\ ~IsFilteredOut(blocks)
    /\ paragraphs_blocks' = Append(paragraphs_blocks, blocks)
    /\ filtered' = Append(filtered, blocks)
    /\ LET s == SplitStep(SegState, blocks)
       IN  /\ questions' = s.questions
           /\ current' = s.current
           /\ state' = s.state
           /\ current_section_type' = s.current_section_type
    /\ UNCHANGED <<result, pc>>
    /\ UNCHANGED <<mergeVars, ommlVars, laterVars>>

\* The end of the stream and the rest of parse_docx.
Finish ==
    /\ pc = "scan"
    /\ questions' = SplitEnd(SegState)
    /\ result' = PostProcessAll(questions')
    /\ pc' = "done"
    /\ UNCHANGED <<paragraphs_blocks, filtered, current, state, current_section_type>>
    /\ UNCHANGED <<mergeVars, ommlVars, laterVars>>

MergeIdle ==
    /\ mergeIn = <<>>
    /\ mergeOnce = <<>>
    /\ mergeTwice = <<>>
    /\ mergePc = "idle"

OmmlIdle ==
    /\ ommlIn = None
    /\ ommlOut = <<>>
    /\ ommlPc = "idle"

\* no package is open
ReaderIdle ==
    /\ pkg = None
    /\ rels = <<>>
    /\ media_index_map = <<>>
    /\ next_asset_index = 1
    /\ yielded = <<>>
    /\ handled = <<>>
    /\ asset_files = <<>>
    /\ readerPc = "idle"

SanIdle ==
    /\ sanIn = <<>>
    /\ sanOut = <<>>
    /\ sanPc = "idle"

WmfIdle ==
    /\ tools = None
    /\ use_latex = FALSE
    /\ wmf_files = <<>>
    /\ method = "None"
    /\ wmfIdx = 1
    /\ png_exists = <<>>
    /\ attempts = <<>>
    /\ enhanced = <<>>
    /\ wmfStats = None
    /\ wmfPc = "idle"

OcrIdle ==
    /\ ocrEnv = "ok"
    /\ ocrBlocks = <<>>
    /\ ocrBefore = <<>>
    /\ ocrStats = None
    /\ ocrReturn = "None"
    /\ ocrPc = "idle"

RwIdle ==
    /\ rwIn = <<>>
    /\ rwOut = <<>>
    /\ rwPc = "idle"

ExpIdle ==
    /\ expEnv = <<>>
    /\ expBlocks = <<>>
    /\ expIdx = 1
    /\ expParas = <<>>
    /\ expPc = "idle"

TaskIdle ==
    /\ task = None
    /\ mem = None
    /\ tmp_file = FALSE
    /\ raising = ""
    /\ unlinked = "no"
    /\ taskPc = "idle"

\* no run of process_docx
PlIdle ==
    /\ plDoc = <<>>
    /\ plUse = <<>>
    /\ plEnv = <<>>
    /\ plPc = <<>>
    /\ plSession = <<>>
    /\ plQuestions = <<>>
    /\ plStats = <<>>
    /\ uploads = <<>>
    /\ _im_error_shown = FALSE

FinalIdle == RwIdle /\ ExpIdle /\ TaskIdle /\ PlIdle

LaterIdle == ReaderIdle /\ SanIdle /\ WmfIdle /\ OcrIdle /\ FinalIdle

EarlierIdle ==
    SegIdle /\ MergeIdle /\ OmmlIdle /\ ReaderIdle /\ SanIdle /\ WmfIdle /\ OcrIdle

Init == SegInit /\ MergeIdle /\ OmmlIdle /\ LaterIdle

Next ==
    \/ \E blocks \in Paragraphs : DropParagraph(blocks)
    \/ \E blocks \in Paragraphs : SegmentParagraph(blocks)
    \/ Finish

Spec == Init /\ [][Next]_vars

---------------------------------------------------------------------------
(* _merge_consecutive_text_blocks as a function of any block list *)

MergeBlocks ==
    { Text(<<"a">>), Text(<<NL>>), Text(<<"a", NL, "b">>), Text(<<NL, NL, "b">>),
      Text(<<>>), [type |-> "text"], Latex(<<"x">>), Image("u1") }

BlockLists == UNION {[1..n -> MergeBlocks] : n \in 0..MaxMergeBlocks}

MergeInit ==
    /\ mergeIn \in BlockLists
    /\ mergeOnce = <<>>
    /\ mergeTwice = <<>>
    /\ mergePc = "in"

ApplyMerge ==
    /\ mergePc = "in"
    /\ mergeOnce' = _merge_consecutive_text_blocks(mergeIn)
    /\ mergePc' = "once"
    /\ UNCHANGED <<mergeIn, mergeTwice, segVars, ommlVars, laterVars>>

ApplyMergeAgain ==
    /\ mergePc = "once"
    /\ mergeTwice' = _merge_consecutive_text_blocks(mergeOnce)
    /\ mergePc' = "twice"
    /\ UNCHANGED <<mergeIn, mergeOnce, segVars, ommlVars, laterVars>>

InitMerge == SegIdle /\ MergeInit /\ OmmlIdle /\ LaterIdle

NextMerge == ApplyMerge \/ ApplyMergeAgain

SpecMerge == InitMerge /\ [][NextMerge]_vars

---------------------------------------------------------------------------
(* omml_converter.py

   An OMML element is [tag, props, kids, text]: its local tag, the values of
   its property element (NoVal where the property or its m:val is absent),
   its child elements in order, and, for m:r, the text of its m:t children.
   Input characters outside ASCII are named: "<alpha>" is U+03B1, "<sum>"
   U+2211, "<cdot>" U+00B7, "<lfloor>" U+230A, and so on.

   A LaTeX string is a sequence of tokens: a control sequence ("\\alpha",
   "\\left", "\\{") is one token, every other character is one token.  The
   code builds its output only by concatenating table entries, literals and
   input characters, so the tests it makes on characters (startswith, isalpha,
   len, strip) are made here on tokens. *)

NoVal == "<none>"

El(tag, props, kids) == [tag |-> tag, props |-> props, kids |-> kids, text |-> <<>>]

Run(props, text) == [tag |-> "r", props |-> props, kids |-> <<>>, text |-> text]

NoProps == [none |-> NoVal]

\* _get_val(el, "<x>Pr/<name>"), and the attribute reads of _convert_delimiter
\* and _convert_math_run (nor is "1" when rPr holds an m:nor element)
Val(el, name) == IF name \in DOMAIN el.props THEN el.props[name] ELSE NoVal

\* el.find(_m(tag))
Find(el, tag) ==
    LET idx == {i \in 1..Len(el.kids) : el.kids[i].tag = tag}
    IN  IF idx = {} THEN None ELSE el.kids[CHOOSE i \in idx : \A j \in idx : i <= j]

\* el.findall(_m(tag))
FindAll(el, tag) == SelectSeq(el.kids, LAMBDA k : k.tag = tag)

\* lines 53-58
_PROPERTY_TAGS ==
    {"fPr", "radPr", "sSubPr", "sSupPr", "sSubSupPr", "naryPr", "dPr", "accPr",
     "barPr", "funcPr", "limLowPr", "limUppPr", "mPr", "eqArrPr", "sPrePr",
     "groupChrPr", "boxPr", "borderBoxPr", "oMathParaPr", "rPr", "ctrlPr",
     "phantPr"}

\* Control words: a backslash and letters.  (Those the modelled tables and
\* literals can put out.)
ControlWords ==
    {"\\alpha", "\\times", "\\cdot", "\\in", "\\rightarrow", "\\sum", "\\int",
     "\\bigcup", "\\circ", "\\mathbb", "\\lfloor", "\\rfloor", "\\langle",
     "\\rangle", "\\left", "\\right", "\\frac", "\\sqrt", "\\text", "\\mathcal",
     "\\mathfrak", "\\mathbf", "\\boldsymbol", "\\mathrm", "\\hat", "\\bar",
     "\\vec", "\\overline", "\\underline", "\\sin", "\\lim", "\\ln", "\\max",
     "\\begin", "\\end", "\\phantom", "\\overbrace", "\\underbrace"}

\* Control symbols: a backslash and one non-letter
ControlSymbols == {"\\{", "\\}", "\\|", "\\\\"}

Letters == {"a", "b", "x", "y", "n", "s", "i", "l", "m", "R"}

\* s.startswith("\\")
StartsBackslash(s) == s # <<>> /\ Head(s) \in ControlWords \cup ControlSymbols

\* s[-1].isalpha()
EndsAlpha(s) == s # <<>> /\ s[Len(s)] \in ControlWords \cup Letters

\* len(s) > 1
LongerThanOne(s) ==
    Len(s) > 1 \/ (Len(s) = 1 /\ s[1] \in ControlWords \cup ControlSymbols)

\* sep.join(parts)
RECURSIVE Join(_, _)
Join(parts, sep) ==
    IF parts = <<>> THEN <<>>
    ELSE IF Len(parts) = 1 THEN parts[1]
    ELSE parts[1] \o sep \o Join(Tail(parts), sep)

\* lines 61-112, one entry of each shape of the table
UnicodeChars ==
    {"<alpha>", "<times>", "<cdot>", "<in>", "<rightarrow>", "<sum>",
     "<prime>", "<degree>", "<R>", "<minus>"}

UNICODE_TO_LATEX(ch) ==
    CASE ch = "<alpha>" -> <<"\\alpha">>
      [] ch = "<times>" -> <<"\\times">>
      [] ch = "<cdot>" -> <<"\\cdot">>
      [] ch = "<in>" -> <<"\\in">>
      [] ch = "<rightarrow>" -> <<"\\rightarrow">>
      [] ch = "<sum>" -> <<"\\sum">>
      [] ch = "<prime>" -> <<"'">>
      [] ch = "<degree>" -> <<"^", "{", "\\circ", "}">>
      [] ch = "<R>" -> <<"\\mathbb", "{", "R", "}">>
      [] ch = "<minus>" -> <<"-">>

\* lines 115-131; ACCENT_MAP.get(chr_val, r"\hat")
ACCENT_MAP(ch) ==
    CASE ch = "<circumflex>" -> "\\hat"
      [] ch = "<macron>" -> "\\bar"
      [] ch = "<overline>" -> "\\overline"
      [] ch = "<rarrowabove>" -> "\\vec"
      [] ch = "^" -> "\\hat"
      [] OTHER -> "\\hat"

\* lines 134-146; NARY_MAP.get(chr_val, chr_val)
NARY_MAP(ch) ==
    CASE ch = "<sum>" -> "\\sum"
      [] ch = "<int>" -> "\\int"
      [] ch = "<bigcup>" -> "\\bigcup"
      [] OTHER -> ch

\* lines 149-158; DELIM_MAP.get(ch, ch)
DELIM_MAP(ch) ==
    CASE ch = "{" -> "\\{"
      [] ch = "}" -> "\\}"
      [] ch = "<dvert>" -> "\\|"
      [] ch = "<lfloor>" -> "\\lfloor"
      [] ch = "<rfloor>" -> "\\rfloor"
      [] ch = "<langle>" -> "\\langle"
      [] ch = "<rangle>" -> "\\rangle"
      [] OTHER -> ch

\* lines 161-166
GROUPCHR_MAP(ch) ==
    CASE ch = "<topbrace>" -> "\\overbrace"
      [] ch = "<bottombrace>" -> "\\underbrace"
      [] OTHER -> NoVal

\* lines 169-177, some of the names, with the control word of each
_FUNC_NAMES == {<<"s", "i", "n">>, <<"l", "i", "m">>, <<"l", "n">>, <<"m", "a", "x">>}

FuncCommand(name) ==
    CASE name = <<"s", "i", "n">> -> "\\sin"
      [] name = <<"l", "i", "m">> -> "\\lim"
      [] name = <<"l", "n">> -> "\\ln"
      [] name = <<"m", "a", "x">> -> "\\max"

\* lines 184-198
RECURSIVE _convert_text(_)
_convert_text(text) ==
    IF text = <<>> THEN <<>>
    ELSE LET ch == Head(text)
         IN  (IF ch \in UnicodeChars
              THEN LET cmd == UNICODE_TO_LATEX(ch)
                   IN  IF StartsBackslash(cmd) /\ EndsAlpha(cmd)
                       THEN cmd \o <<SP>> ELSE cmd
              ELSE <<ch>>)
             \o _convert_text(Tail(text))

Braced(s) == <<"{">> \o s \o <<"}">>

RECURSIVE _convert_element(_)
RECURSIVE _convert_children(_)

\* _convert_children(x) if x is not None else ""
ChildrenOf(el, tag) ==
    IF Find(el, tag) = None THEN <<>> ELSE _convert_children(Find(el, tag))

\* lines 237-283
_convert_math_run(el) ==
    LET latex == _convert_text(el.text)
        script == Val(el, "scr")
        style == Val(el, "sty")
        Wrap(cmd) == <<cmd>> \o Braced(Strip(latex))
    IN  IF Val(el, "nor") = "1" THEN <<"\\text">> \o Braced(el.text)
        ELSE IF script = "double-struck" /\ latex # <<>> THEN Wrap("\\mathbb")
        ELSE IF script = "script" /\ latex # <<>> THEN Wrap("\\mathcal")
        ELSE IF script = "fraktur" /\ latex # <<>> THEN Wrap("\\mathfrak")
        ELSE IF style = "b" /\ latex # <<>> THEN Wrap("\\mathbf")
        ELSE IF style = "bi" /\ latex # <<>> THEN Wrap("\\boldsymbol")
        ELSE IF style = "p" /\ latex # <<>> THEN Wrap("\\mathrm")
        ELSE latex

\* lines 286-295
_convert_fraction(el) ==
    LET n == ChildrenOf(el, "num")
        d == ChildrenOf(el, "den")
    IN  IF Val(el, "type") \in {"skw", "lin"}
        THEN Braced(n) \o <<"/">> \o Braced(d)
        ELSE <<"\\frac">> \o Braced(n) \o Braced(d)

\* lines 298-307
_convert_radical(el) ==
    LET deg_s == ChildrenOf(el, "deg")
        e_s == ChildrenOf(el, "e")
    IN  IF Val(el, "degHide") = "1" \/ Strip(deg_s) = <<>>
        THEN <<"\\sqrt">> \o Braced(e_s)
        ELSE <<"\\sqrt", "[">> \o deg_s \o <<"]">> \o Braced(e_s)

\* lines 316-317, 327-328, 340-341
WrapBase(e_s) ==
    IF LongerThanOne(e_s) /\ ~(StartsWith(e_s, "{") \/ StartsBackslash(e_s))
    THEN Braced(e_s) ELSE e_s

\* lines 310-318
_convert_superscript(el) ==
    WrapBase(ChildrenOf(el, "e")) \o <<"^">> \o Braced(ChildrenOf(el, "sup"))

\* lines 321-329
_convert_subscript(el) ==
    WrapBase(ChildrenOf(el, "e")) \o <<"_">> \o Braced(ChildrenOf(el, "sub"))

\* lines 332-342
_convert_subsuper(el) ==
    WrapBase(ChildrenOf(el, "e")) \o <<"_">> \o Braced(ChildrenOf(el, "sub"))
        \o <<"^">> \o Braced(ChildrenOf(el, "sup"))

\* lines 345-369
_convert_nary(el) ==
    LET chr_val == IF Val(el, "chr") = NoVal THEN "<int>" ELSE Val(el, "chr")
        op == NARY_MAP(chr_val)
        sub_s == ChildrenOf(el, "sub")
        sup_s == ChildrenOf(el, "sup")
        e_s == ChildrenOf(el, "e")
    IN  <<op>>
        \o (IF Strip(sub_s) # <<>> /\ Val(el, "subHide") # "1"
            THEN <<"_">> \o Braced(sub_s) ELSE <<>>)
        \o (IF Strip(sup_s) # <<>> /\ Val(el, "supHide") # "1"
            THEN <<"^">> \o Braced(sup_s) ELSE <<>>)
        \o (IF Strip(e_s) # <<>> THEN Braced(e_s) ELSE <<>>)

RECURSIVE ConvertEach(_)
ConvertEach(els) ==
    IF els = <<>> THEN <<>>
    ELSE <<_convert_children(Head(els))>> \o ConvertEach(Tail(els))

\* the separator default taken to be comma+space
_convert_delimiter_CommaDefault(el) ==
    LET beg == IF Val(el, "begChr") # NoVal THEN Val(el, "begChr") ELSE "("
        end == IF Val(el, "endChr") # NoVal THEN Val(el, "endChr") ELSE ")"
        sep == IF Val(el, "sepChr") # NoVal THEN Val(el, "sepChr") ELSE ""
        parts == ConvertEach(FindAll(el, "e"))
        sep_latex == IF sep # "" THEN _convert_text(<<sep>>) ELSE <<",", SP>>
        inner == IF Len(parts) > 1 THEN Join(parts, sep_latex)
                 ELSE IF parts # <<>> THEN parts[1] ELSE <<>>
        beg_out == IF beg # "" THEN DELIM_MAP(beg) ELSE "."
        end_out == IF end # "" THEN DELIM_MAP(end) ELSE "."
    IN  IF beg = "" /\ end = "" THEN inner
        ELSE <<"\\left", beg_out, SP>> \o inner \o <<SP, "\\right", end_out>>

\* lines 372-420
_convert_delimiter(el) ==
    LET beg == IF Val(el, "begChr") # NoVal THEN Val(el, "begChr") ELSE "("
        end == IF Val(el, "endChr") # NoVal THEN Val(el, "endChr") ELSE ")"
        sep == IF Val(el, "sepChr") # NoVal THEN Val(el, "sepChr") ELSE "|"
        parts == ConvertEach(FindAll(el, "e"))
        sep_latex == IF sep # "" THEN _convert_text(<<sep>>) ELSE <<",", SP>>
        inner == IF Len(parts) > 1 THEN Join(parts, sep_latex)
                 ELSE IF parts # <<>> THEN parts[1] ELSE <<>>
        beg_out == IF beg # "" THEN DELIM_MAP(beg) ELSE "."
        end_out == IF end # "" THEN DELIM_MAP(end) ELSE "."
    IN  IF beg = "" /\ end = "" THEN inner
        ELSE <<"\\left", beg_out, SP>> \o inner \o <<SP, "\\right", end_out>>

\* lines 423-431
_convert_accent(el) ==
    LET chr_val == IF Val(el, "chr") = NoVal THEN "<circumflex>" ELSE Val(el, "chr")
    IN  <<ACCENT_MAP(chr_val)>> \o Braced(ChildrenOf(el, "e"))

\* lines 434-441
_convert_bar(el) ==
    IF Val(el, "pos") = "bot"
    THEN <<"\\underline">> \o Braced(ChildrenOf(el, "e"))
    ELSE <<"\\overline">> \o Braced(ChildrenOf(el, "e"))

\* pat in s
RECURSIVE HasSub(_, _)
HasSub(s, pat) ==
    IF Len(s) < Len(pat) THEN FALSE
    ELSE SubSeq(s, 1, Len(pat)) = pat \/ HasSub(Tail(s), pat)

\* s.replace(pat, rep), pat not empty
RECURSIVE ReplaceSub(_, _, _)
ReplaceSub(s, pat, rep) ==
    IF Len(s) < Len(pat) THEN s
    ELSE IF SubSeq(s, 1, Len(pat)) = pat
         THEN rep \o ReplaceSub(SubSeq(s, Len(pat) + 1, Len(s)), pat, rep)
         ELSE <<Head(s)>> \o ReplaceSub(Tail(s), pat, rep)

MathrmPat(name) == <<"\\mathrm", "{">> \o name \o <<"}">>

\* lines 452-459: the first name of the set, in the order the loop visits it,
\* that either test takes.  No input of the model holds two names.
NormalizeFuncName(fname_s) ==
    LET hit == {name \in _FUNC_NAMES :
                   HasSub(fname_s, MathrmPat(name)) \/ Strip(fname_s) = name}
    IN  IF hit = {} THEN fname_s
        ELSE LET name == CHOOSE n \in hit : TRUE
             IN  IF HasSub(fname_s, MathrmPat(name))
                 THEN ReplaceSub(fname_s, MathrmPat(name), <<FuncCommand(name), SP>>)
                 ELSE <<FuncCommand(name), SP>>

\* lines 444-461
_convert_func(el) ==
    NormalizeFuncName(ChildrenOf(el, "fName")) \o ChildrenOf(el, "e")

\* lines 464-470
_convert_limlower(el) ==
    ChildrenOf(el, "e") \o <<"_">> \o Braced(ChildrenOf(el, "lim"))

\* lines 473-479
_convert_limupper(el) ==
    ChildrenOf(el, "e") \o <<"^">> \o Braced(ChildrenOf(el, "lim"))

RECURSIVE MatrixRows(_)
MatrixRows(rows) ==
    IF rows = <<>> THEN <<>>
    ELSE <<Join(ConvertEach(FindAll(Head(rows), "e")), <<SP, "&", SP>>)>>
         \o MatrixRows(Tail(rows))

\* lines 482-491
_convert_matrix(el) ==
    <<"\\begin", "{", "matrix", "}", SP>>
        \o Join(MatrixRows(FindAll(el, "mr")), <<SP, "\\\\", SP>>)
        \o <<SP, "\\end", "{", "matrix", "}">>

\* lines 494-499
_convert_eqarr(el) ==
    <<"\\begin", "{", "aligned", "}", SP>>
        \o Join(ConvertEach(FindAll(el, "e")), <<SP, "\\\\", SP>>)
        \o <<SP, "\\end", "{", "aligned", "}">>

\* lines 502-510
_convert_prescript(el) ==
    <<"{", "}", "_">> \o Braced(ChildrenOf(el, "sub")) \o <<"^">>
        \o Braced(ChildrenOf(el, "sup")) \o ChildrenOf(el, "e")

\* lines 513-524
_convert_groupchr(el) ==
    IF GROUPCHR_MAP(Val(el, "chr")) # NoVal
    THEN <<GROUPCHR_MAP(Val(el, "chr"))>> \o Braced(ChildrenOf(el, "e"))
    ELSE IF Val(el, "pos") = "bot"
         THEN <<"\\underbrace">> \o Braced(ChildrenOf(el, "e"))
         ELSE <<"\\overbrace">> \o Braced(ChildrenOf(el, "e"))

\* lines 527-532
_convert_box(el) ==
    IF Find(el, "e") # None THEN _convert_children(Find(el, "e"))
    ELSE _convert_children(el)

\* lines 535-542
_convert_phant(el) ==
    IF Val(el, "show") = "0"
    THEN <<"\\phantom">> \o Braced(ChildrenOf(el, "e"))
    ELSE ChildrenOf(el, "e")

\* lines 546-567: the keys of _CONVERTERS
ConverterTags ==
    {"r", "f", "rad", "sSup", "sSub", "sSubSup", "nary", "d", "acc", "bar",
     "func", "limLow", "limUpp", "m", "eqArr", "sPre", "groupChr", "box",
     "borderBox", "phant"}

\* lines 227-228
ContainerTags ==
    {"oMath", "oMathPara", "e", "num", "den", "sup", "sub", "deg", "lim", "fName"}

\* lines 218-230
_convert_element(el) ==
    IF el.tag \in _PROPERTY_TAGS THEN <<>>
    ELSE CASE el.tag = "r" -> _convert_math_run(el)
           [] el.tag = "f" -> _convert_fraction(el)
           [] el.tag = "rad" -> _convert_radical(el)
           [] el.tag = "sSup" -> _convert_superscript(el)
           [] el.tag = "sSub" -> _convert_subscript(el)
           [] el.tag = "sSubSup" -> _convert_subsuper(el)
           [] el.tag = "nary" -> _convert_nary(el)
           [] el.tag = "d" -> _convert_delimiter(el)
           [] el.tag = "acc" -> _convert_accent(el)
           [] el.tag = "bar" -> _convert_bar(el)
           [] el.tag = "func" -> _convert_func(el)
           [] el.tag = "limLow" -> _convert_limlower(el)
           [] el.tag = "limUpp" -> _convert_limupper(el)
           [] el.tag = "m" -> _convert_matrix(el)
           [] el.tag = "eqArr" -> _convert_eqarr(el)
           [] el.tag = "sPre" -> _convert_prescript(el)
           [] el.tag = "groupChr" -> _convert_groupchr(el)
           [] el.tag \in {"box", "borderBox"} -> _convert_box(el)
           [] el.tag = "phant" -> _convert_phant(el)
           [] el.tag \in ContainerTags -> _convert_children(el)
           [] OTHER -> <<>>

\* lines 205-215
_convert_children(el) ==
    IF el.kids = <<>> THEN <<>>
    ELSE (IF Head(el.kids).tag \in _PROPERTY_TAGS THEN <<>>
          ELSE _convert_element(Head(el.kids)))
         \o _convert_children([el EXCEPT !.kids = Tail(@)])

RECURSIVE StrippedParts(_)
StrippedParts(omaths) ==
    IF omaths = <<>> THEN <<>>
    ELSE LET x == Strip(_convert_children(Head(omaths)))
         IN  (IF x # <<>> THEN <<x>> ELSE <<>>) \o StrippedParts(Tail(omaths))

\* lines 574-597
omml_to_latex(omath_el) ==
    IF omath_el.tag = "oMathPara"
    THEN Join(StrippedParts(FindAll(omath_el, "oMath")), <<SP, "\\\\", SP>>)
    ELSE IF omath_el.tag = "oMath"
         THEN Strip(_convert_children(omath_el))
         ELSE Strip(_convert_element(omath_el))

---------------------------------------------------------------------------
(* The formulas handed to omml_to_latex *)

E(kids) == El("e", NoProps, kids)
OMath(kids) == El("oMath", NoProps, kids)

Rx == Run(NoProps, <<"x">>)
Ry == Run(NoProps, <<"y">>)
Ralpha == Run(NoProps, <<"<alpha>">>)
RsinRoman == Run([sty |-> "p"], <<"s", "i", "n">>)
Rsin == Run(NoProps, <<"s", "i", "n">>)

Delim(beg, end, sep, es) ==
    El("d", [begChr |-> beg, endChr |-> end, sepChr |-> sep], es)

Delims ==
    { Delim(beg, end, sep, es) :
        beg \in {NoVal, "", "[", "<lfloor>"},
        end \in {NoVal, "", "<rfloor>"},
        sep \in {NoVal, "", ",", "<cdot>"},
        es \in {<<>>, <<E(<<Rx>>)>>, <<E(<<Rx>>), E(<<Ralpha>>)>>} }

Nary(chr, subHide, sub, e) ==
    El("nary", [chr |-> chr, subHide |-> subHide, supHide |-> NoVal],
       <<El("sub", NoProps, sub), El("sup", NoProps, <<>>), E(e)>>)

Narys ==
    { Nary(chr, subHide, sub, e) :
        chr \in {NoVal, "<sum>", "<bigcup>"},
        subHide \in {NoVal, "1"},
        sub \in {<<>>, <<Rx>>},
        e \in {<<>>, <<Ry>>} }

Func(fname, e) == El("func", NoProps, <<El("fName", NoProps, fname), E(e)>>)

Rlim == Run(NoProps, <<"l", "i", "m">>)
RlimRoman == Run([sty |-> "p"], <<"l", "i", "m">>)

LimLow(e) == El("limLow", NoProps, <<E(e), El("lim", NoProps, <<Rx>>)>>)

Funcs ==
    { Func(fname, <<Rx>>) :
        fname \in {<<RsinRoman>>, <<Rsin>>, <<Ry>>, <<Rlim>>,
                   <<LimLow(<<Rlim>>)>>, <<LimLow(<<RlimRoman>>)>>,
                   <<LimLow(<<Ry>>)>>} }

\* elements of a kind the converter has no entry for
Unknowns ==
    { El("unknown", NoProps, <<>>),
      El("unknown", NoProps, <<Rx>>),
      El("unknown", NoProps, <<E(<<Rx, Ry>>)>>) }

Kids ==
    { Rx, Ralpha, Run([nor |-> "1"], <<"a">>),
      Delim("<lfloor>", "<rfloor>", NoVal, <<E(<<Rx>>)>>),
      Nary("<sum>", "1", <<>>, <<>>),
      Nary("<sum>", NoVal, <<Rx>>, <<Ry>>),
      Func(<<RsinRoman>>, <<Rx>>),
      El("unknown", NoProps, <<Rx>>),
      El("ctrlPr", NoProps, <<Rx>>),
      El("f", [type |-> NoVal], <<El("num", NoProps, <<Rx>>), El("den", NoProps, <<Ry>>)>>),
      El("sSup", NoProps, <<E(<<Ralpha>>), El("sup", NoProps, <<Rx>>)>>) }

KidLists == UNION {[1..n -> Kids] : n \in 0..MaxKids}

OmmlInputs ==
    {OMath(kids) : kids \in KidLists}
    \cup {OMath(<<el>>) : el \in Delims \cup Narys \cup Funcs \cup Unknowns}
    \cup Unknowns
    \cup {El("oMathPara", NoProps, <<OMath(<<Rx>>), OMath(<<>>), OMath(<<Ralpha>>)>>)}

OmmlInit ==
    /\ ommlIn \in OmmlInputs
    /\ ommlOut = <<>>
    /\ ommlPc = "in"

Convert ==
    /\ ommlPc = "in"
    /\ ommlOut' = omml_to_latex(ommlIn)
    /\ ommlPc' = "done"
    /\ UNCHANGED <<ommlIn, segVars, mergeVars, laterVars>>

InitOmml == SegIdle /\ MergeIdle /\ OmmlInit /\ LaterIdle

NextOmml == Convert

SpecOmml == InitOmml /\ [][NextOmml]_vars

---------------------------------------------------------------------------
(* Claims about the segmenter and the post-processor *)

\* The characters and non-text blocks of a block list, in order: what a
\* section holds, whatever the cut of its text into blocks.
RECURSIVE Chars(_)
Chars(c) == IF c = <<>> THEN <<>> ELSE <<Text(<<Head(c)>>)>> \o Chars(Tail(c))

RECURSIVE Flatten(_)
Flatten(blocks) ==
    IF blocks = <<>> THEN <<>>
    ELSE (IF Head(blocks).type = "text" THEN Chars(ContentOf(Head(blocks)))
          ELSE <<Head(blocks)>>)
         \o Flatten(Tail(blocks))

NonText(blocks) == SelectSeq(blocks, LAMBDA b : b.type # "text")

\* The paragraph the segmenter takes in this step
TakesParagraph == pc = "scan" /\ Len(filtered') = Len(filtered) + 1
Taken == filtered'[Len(filtered')]

(* C1 *)
\* a paragraph  k．<body>  in one text block
C1_IsNumbered(p) ==
    /\ Len(p) = 1 /\ p[1].type = "text"
    /\ MatchNumeral(p[1].content, {FWDOT})

C1_Body(p) == SubSeq(p[1].content, DigitPrefixLen(p[1].content) + 2, Len(p[1].content))

\* a paragraph  【答案】<ans>  in one text block
C1_IsAnswer(p) ==
    /\ Len(p) = 1 /\ p[1].type = "text"
    /\ StartsWith(p[1].content, ANS)
    /\ ~Contains(Tail(p[1].content), ANS)

C1_IsHeadingAndPairs(ps) ==
    /\ Len(ps) >= 3 /\ Len(ps) % 2 = 1
    /\ ps[1] = <<Text(<<"<H1>">>)>>
    /\ \A i \in 2..Len(ps) :
          IF i % 2 = 0 THEN C1_IsNumbered(ps[i]) ELSE C1_IsAnswer(ps[i])

\* C1: a stream made of the heading 一、单选题 and N pairs (k．<body>,
\* 【答案】<ans>) yields exactly N questions in stream order, each
\* single_choice with index k, a body whose text is <body> and an answer
\* whose text is <ans> (the white space around them aside).
C1_HeadingAndPairs ==
    (pc = "done" /\ C1_IsHeadingAndPairs(paragraphs_blocks)) =>
        /\ Len(result) = (Len(paragraphs_blocks) - 1) \div 2
        /\ \A k \in 1..Len(result) :
              LET q == paragraphs_blocks[2 * k]
                  a == paragraphs_blocks[2 * k + 1]
              IN  /\ result[k].questionType = "single_choice"
                  /\ result[k].index = NumeralValue(q[1].content)
                  /\ _get_paragraph_text(result[k].questionBody) = Strip(C1_Body(q))
                  /\ _get_paragraph_text(result[k].answer) = Strip(Tail(a[1].content))

(* C2 *)
\* the blocks of a numbered paragraph, the numeral (and the white space after
\* it) cut from its first text block only
RECURSIVE C2_CutFirstNumeral(_)
C2_CutFirstNumeral(blocks) ==
    IF blocks = <<>> THEN <<>>
    ELSE IF Head(blocks).type = "text"
         THEN <<Text(SubNumeral(Head(blocks).content, {FWDOT, DOT}))>> \o Tail(blocks)
         ELSE <<Head(blocks)>> \o C2_CutFirstNumeral(Tail(blocks))

\* C2: when the last paragraph of a document starts with digits and a full
\* stop, the last record returned has as its body that paragraph with only the
\* leading numeral removed from the first text block: every other character
\* and block is there unchanged.
C2_OnlyLeadingNumeralStripped ==
    (/\ pc = "done"
     /\ filtered # <<>>
     /\ MatchNumeral(Strip(_get_paragraph_text(filtered[Len(filtered)])), {FWDOT, DOT}))
    => /\ result # <<>>
       /\ Flatten(result[Len(result)].questionBody)
            = Flatten(C2_CutFirstNumeral(filtered[Len(filtered)]))

(* C3 *)
C3_Markers == {ANS, ANA, DET}

C3_SectionOf(marker) ==
    CASE marker = ANS -> "answer"
      [] marker = ANA -> "analysis"
      [] marker = DET -> "detailedSolution"

\* the section of the record that a segmenter state appends to
C3_KeyOf(st) == IF st = "body" THEN "questionBody" ELSE st

\* the marker cut from the first text block that holds it, and from no other
RECURSIVE C3_CutFirstMarker(_, _)
C3_CutFirstMarker(blocks, marker) ==
    IF blocks = <<>> THEN <<>>
    ELSE LET b == Head(blocks)
         IN  IF b.type = "text" /\ Contains(b.content, marker)
             THEN (IF Strip(RemoveAll(b.content, marker)) # <<>>
                   THEN <<Text(Strip(RemoveAll(b.content, marker)))>> ELSE <<>>)
                  \o Tail(blocks)
             ELSE <<b>> \o C3_CutFirstMarker(Tail(blocks), marker)

C3_Step ==
    (/\ TakesParagraph
     /\ current # None
     /\ ~IsHeading(Strip(_get_paragraph_text(Taken)))
     /\ ~OpensQuestion(Strip(_get_paragraph_text(Taken))))
    => LET text == _get_paragraph_text(Taken)
           held == {m \in C3_Markers : Contains(text, m)}
       IN  /\ \A m \in held :
                 /\ state' = C3_SectionOf(m)
                 /\ current'[C3_SectionOf(m)] =
                      _append_with_break(current[C3_SectionOf(m)],
                                         C3_CutFirstMarker(Taken, m))
           /\ held = {} =>
                 /\ state' = state
                 /\ current'[C3_KeyOf(state)] =
                      _append_with_break(current[C3_KeyOf(state)], Taken)

\* C3: within an open question, a paragraph whose text holds 【答案】, 【分析】
\* or 【详解】 anywhere switches the state to answer, analysis or
\* detailedSolution; the marker is cut from the first text block that holds it
\* only; that paragraph and the unmarked paragraphs after it go to the section
\* then active.
C3_MarkerAnywhereSwitches == [][C3_Step]_vars

(* C4 *)
C4_TypeOfHeading(h) ==
    CASE h = "<H1>" -> "single_choice"
      [] h = "<H2>" -> "multiple_choice"
      [] h = "<H3>" -> "fill_blank"
      [] h = "<H4>" -> "solution"

C4_IsHeadingText(t) == \E h \in {"<H1>", "<H2>", "<H3>", "<H4>"} : t = <<h>>

\* the ambient type at each paragraph of ps that opens a question
RECURSIVE C4_OpenTypes(_, _)
C4_OpenTypes(ps, ambient) ==
    IF ps = <<>> THEN <<>>
    ELSE LET t == Strip(_get_paragraph_text(Head(ps)))
         IN  IF C4_IsHeadingText(t)
             THEN C4_OpenTypes(Tail(ps), C4_TypeOfHeading(t[1]))
             ELSE IF MatchNumeral(t, {FWDOT, DOT})
                  THEN <<ambient>> \o C4_OpenTypes(Tail(ps), ambient)
                  ELSE C4_OpenTypes(Tail(ps), ambient)

C4_Step ==
    /\ TakesParagraph =>
          LET t == Strip(_get_paragraph_text(Taken))
          IN  /\ C4_IsHeadingText(t) =>
                    /\ current_section_type' = C4_TypeOfHeading(t[1])
                    /\ UNCHANGED <<questions, current, state>>
              /\ ~C4_IsHeadingText(t) =>
                    current_section_type' = current_section_type
    /\ (pc = "scan" /\ pc' = "done") =>
          [k \in 1..Len(result') |-> result'[k].questionType]
            = C4_OpenTypes(filtered, "single_choice")

C5_MergeIdempotent == mergePc = "twice" => mergeTwice = mergeOnce

C5_Witness ==
    /\ mergePc = "twice"
    /\ mergeOnce # mergeIn
    /\ \E i \in 1..(Len(mergeOnce) - 2) :
          /\ mergeOnce[i].type = "text" /\ mergeOnce[i].content # <<NL>>
          /\ mergeOnce[i + 1] = Text(<<NL>>)
          /\ mergeOnce[i + 2].type = "text"

(* C6 *)
C6_TextShape(b) ==
    b.type = "text" =>
        \/ b.content = <<NL>>
        \/ (b.content # <<>> /\ ~Contains(b.content, NL))

\* C6: in every section of every returned record each text block is exactly
\* a newline or a non-empty text without newline, and the non-text blocks are
\* those the segmenter put there, in the same order.
C6_TextBlocksSplitOnNewlines ==
    pc = "done" =>
        /\ Len(result) = Len(questions)
        /\ \A i \in 1..Len(result) :
              \A k \in SectionKeys :
                 IF k \in DOMAIN result[i]
                 THEN /\ \A j \in 1..Len(result[i][k]) : C6_TextShape(result[i][k][j])
                      /\ NonText(result[i][k]) = NonText(questions[i][k])
                 ELSE NonText(questions[i][k]) = <<>>

C6_Witness ==
    /\ pc = "done"
    /\ \E i \in 1..Len(result) :
          \E j \in 1..Len(questions[i].questionBody) :
             /\ questions[i].questionBody[j].type = "text"
             /\ Contains(questions[i].questionBody[j].content, NL)
             /\ questions[i].questionBody[j].content # <<NL>>
             /\ NonText(result[i].questionBody) # <<>>

(* C7 *)
\* C7: in every returned record analysis and detailedSolution are present
\* only with a non-empty list; index, questionType, questionBody and answer
\* are always present.
C7_EmptyOptionalSectionsPruned ==
    pc = "done" =>
        \A i \in 1..Len(result) :
           /\ {"index", "questionType", "questionBody", "answer"} \subseteq DOMAIN result[i]
           /\ DOMAIN result[i] \subseteq
                 {"index", "questionType", "questionBody", "answer",
                  "analysis", "detailedSolution"}
           /\ \A k \in {"analysis", "detailedSolution"} :
                 k \in DOMAIN result[i] => result[i][k] # <<>>

C7_Witness ==
    /\ pc = "done"
    /\ Len(result) = 2
    /\ "analysis" \in DOMAIN result[1]
    /\ "detailedSolution" \notin DOMAIN result[1]
    /\ "analysis" \notin DOMAIN result[2]
    /\ result[2].answer = <<>>

---------------------------------------------------------------------------
(* Claims about the OMML -> LaTeX converter *)

(* C8 *)
C8_IsUnrecognized(el) ==
    el.tag \notin ConverterTags \cup ContainerTags \cup _PROPERTY_TAGS

\* the text of an element and of its descendants, in document order
RECURSIVE C8_DescendantText(_)
RECURSIVE C8_TextOfEach(_)
C8_DescendantText(el) == el.text \o C8_TextOfEach(el.kids)
C8_TextOfEach(els) ==
    IF els = <<>> THEN <<>>
    ELSE C8_DescendantText(Head(els)) \o C8_TextOfEach(Tail(els))

RECURSIVE C8_ExpectedOfEach(_)
C8_ExpectedOfEach(els) ==
    IF els = <<>> THEN <<>>
    ELSE (IF C8_IsUnrecognized(Head(els)) THEN C8_DescendantText(Head(els))
          ELSE IF Head(els).tag \in _PROPERTY_TAGS THEN <<>>
          ELSE _convert_element(Head(els)))
         \o C8_ExpectedOfEach(Tail(els))

\* C8: an element of an unrecognized kind, at the top level or as a child of
\* the formula, is converted to the concatenated text of its descendants.
C8_UnknownFallsBackToText ==
    ommlPc = "done" =>
        /\ C8_IsUnrecognized(ommlIn) => ommlOut = Strip(C8_DescendantText(ommlIn))
        /\ ommlIn.tag = "oMath" => ommlOut = Strip(C8_ExpectedOfEach(ommlIn.kids))

(* C9 *)
\* The rule for m:d, the separator used when none is declared left open
C9_Rule(el, undeclared_sep) ==
    LET open == IF Val(el, "begChr") = NoVal THEN "(" ELSE Val(el, "begChr")
        close == IF Val(el, "endChr") = NoVal THEN ")" ELSE Val(el, "endChr")
        sep == IF Val(el, "sepChr") = NoVal THEN undeclared_sep
               ELSE IF Val(el, "sepChr") = "" THEN <<",", SP>>
               ELSE _convert_text(<<Val(el, "sepChr")>>)
        parts == ConvertEach(FindAll(el, "e"))
        inner == Join(parts, sep)
    IN  IF open = "" /\ close = "" THEN inner
        ELSE <<"\\left">> \o (IF open = "" THEN <<".">> ELSE <<DELIM_MAP(open)>>)
             \o <<SP>> \o inner \o <<SP>>
             \o <<"\\right">> \o (IF close = "" THEN <<".">> ELSE <<DELIM_MAP(close)>>)

C9_IsOneDelimiter(el) == el.tag = "oMath" /\ Len(el.kids) = 1 /\ el.kids[1].tag = "d"

\* C9 as claimed: open and close default to ( and ); several inner elements
\* are joined by the declared separator, and by comma+space when none is
\* declared; the result is wrapped as \left<open> ... \right<close>, and is
\* left unwrapped when open and close are both declared empty.
C9_CommaWhenUndeclared ==
    (ommlPc = "done" /\ C9_IsOneDelimiter(ommlIn)) =>
        ommlOut = Strip(C9_Rule(ommlIn.kids[1], <<",", SP>>))

\* C9 amended: as above, but the inner elements are joined by "|" when no
\* separator is declared, and by comma+space when the declared separator is
\* empty; an open or close declared empty alone is written ".".
C9_BarWhenUndeclared ==
    (ommlPc = "done" /\ C9_IsOneDelimiter(ommlIn)) =>
        ommlOut = Strip(C9_Rule(ommlIn.kids[1], <<"|">>))

C9_Witness ==
    /\ ommlPc = "done"
    /\ C9_IsOneDelimiter(ommlIn)
    /\ Val(ommlIn.kids[1], "sepChr") = NoVal
    /\ Val(ommlIn.kids[1], "begChr") = NoVal
    /\ Len(FindAll(ommlIn.kids[1], "e")) = 2
    /\ ommlOut = <<"\\left", "(", SP, "x", "|", "\\alpha", SP, SP, "\\right", ")">>

(* C10 *)
\* C10: in the returned string no control word is immediately followed by a
\* letter.
C10_ControlWordNeverMerges ==
    ommlPc = "done" =>
        \A i \in 1..(Len(ommlOut) - 1) :
            ommlOut[i] \in ControlWords => ommlOut[i + 1] \notin Letters

(* C11 *)
\* the text of the function name: of the name itself, or of the base that
\* carries the limit
C11_NameText(fname) ==
    IF Len(fname.kids) = 1 /\ fname.kids[1].tag = "limLow"
    THEN C8_DescendantText(Find(fname.kids[1], "e"))
    ELSE C8_DescendantText(fname)

C11_IsOneFunc(el) ==
    /\ el.tag = "oMath" /\ Len(el.kids) = 1 /\ el.kids[1].tag = "func"
    /\ Find(el.kids[1], "fName") # None

\* C11: a function application whose name text is a standard name is written
\* with the control sequence of that name, for a plain run, for a roman run,
\* and when the name carries a lower limit.
C11_StandardNameNormalized ==
    (ommlPc = "done" /\ C11_IsOneFunc(ommlIn)) =>
        LET name == C11_NameText(Find(ommlIn.kids[1], "fName"))
        IN  name \in _FUNC_NAMES =>
                ommlOut # <<>> /\ ommlOut[1] = FuncCommand(name)

---------------------------------------------------------------------------
(* The package reader of docx_parser.py: relationships, runs, media *)

MaxRuns == 3

\* EMU per pixel at 96 DPI
EMU_PER_PX == 9525

\* a media path: Path(p).suffix is its suffix field
PartA == [name |-> "word/media/a", suffix |-> ".png"]
PartB == [name |-> "word/media/b", suffix |-> ".PNG"]
PartC == [name |-> "word/media/c", suffix |-> ".emf"]
PartD == [name |-> "word/media/d", suffix |-> ".wmf"]

\* the media parts the package holds; PartC is referenced but not held
MediaParts == {PartA, PartB, PartD}

\* word/_rels/document.xml.rels when it is there: rId3 names the target of rId1
RelsPart ==
    ("rId1" :> PartA) @@ ("rId2" :> PartB) @@ ("rId3" :> PartA)
    @@ ("rId4" :> PartC) @@ ("rId5" :> PartD)

Packages ==
    [relsPart : {"ok", "missing", "corrupt"},
     document : {"ok", "nobody", "corrupt", "missing"}]

\* str.lower() on a suffix
Lower(suffix) == IF suffix = ".PNG" THEN ".png" ELSE suffix

\* f"asset_{idx:04d}{ext}"
AssetName(idx, ext) == [idx |-> idx, ext |-> ext]

\* an attribute value: absent, text int() rejects, or the text of an integer
Absent == [kind |-> "absent"]
Bad == [kind |-> "bad"]
Int_(n) == [kind |-> "int", v |-> n]

\* a w:r element: its text, its embed id and its wp:extent
WRun(text, embed, extent) == [text |-> text, embed |-> embed, extent |-> extent]
NoExtent == [found |-> FALSE]
Extent(cx, cy) == [found |-> TRUE, cx |-> cx, cy |-> cy]

Runs ==
    { WRun(<<"a">>, NoVal, NoExtent),
      WRun(<<>>, "rId1", Extent(Int_(2 * EMU_PER_PX), Int_(EMU_PER_PX))),
      WRun(<<"a">>, "rId1", NoExtent),
      WRun(<<>>, "rId2", Extent(Int_(0), Int_(14288))),
      WRun(<<>>, "rId3", Extent(Bad, Int_(EMU_PER_PX))),
      WRun(<<>>, "rId4", Extent(Absent, Int_(EMU_PER_PX))),
      WRun(<<>>, "rId9", Extent(Int_(EMU_PER_PX), Int_(EMU_PER_PX))),
      WRun(<<>>, "rId5", Extent(Int_(4763), Int_(4762))),
      WRun(<<>>, "rId2", Extent(Int_(0 - EMU_PER_PX), Int_(14287))) }

\* round(n / EMU_PER_PX): n / 9525 is never half way between two integers
RoundPx(n) == (2 * n + EMU_PER_PX) \div (2 * EMU_PER_PX)

Max(a, b) == IF a >= b THEN a ELSE b

Px_NoFloor(n) == RoundPx(n)

\* max(1, round(int(c) / EMU_PER_PX))
Px(n) == Max(1, RoundPx(n))

\* the (None, None) the function returns
NoSize == [found |-> FALSE]

\* lines 75-93: (width, height) or (None, None)
_get_image_extent_from_run(run) ==
    IF ~run.extent.found THEN NoSize
    ELSE IF run.extent.cx = Absent \/ run.extent.cy = Absent THEN NoSize
    ELSE IF run.extent.cx = Bad \/ run.extent.cy = Bad THEN NoSize
    ELSE [found |-> TRUE, w |-> Px(run.extent.cx.v), h |-> Px(run.extent.cy.v)]

\* lines 31-45, on a part that parses
_get_rels(p) == IF p.relsPart = "missing" THEN <<>> ELSE RelsPart

Resolves(run, table) == run.embed # NoVal /\ run.embed \in DOMAIN table

NextIndexAfter_Always(map, target, next) == next + 1

\* lines 120-122: the counter after a reference to target
NextIndexAfter(map, target, next) ==
    IF target \in DOMAIN map THEN next ELSE next + 1

\* lines 120-122: the map after a reference to target
MapAfter(map, target, next) ==
    IF target \in DOMAIN map THEN map ELSE map @@ (target :> next)

\* lines 119-132: the image block of a run whose embed id resolves
ImageBlockOf(run, idx, target) ==
    LET url == AssetName(idx, Lower(target.suffix))
        wh == _get_image_extent_from_run(run)
    IN  IF wh.found
        THEN [type |-> "image", url |-> url, width |-> wh.w, height |-> wh.h]
        ELSE Image(url)

\* lines 196-206: the files the extraction loop writes
ExtractedFiles(map) ==
    LET held == {t \in DOMAIN map : t \in MediaParts}
        names == {AssetName(map[t], t.suffix) : t \in held}
    IN  [n \in names |-> CHOOSE t \in held : AssetName(map[t], t.suffix) = n]

ReaderInit ==
    /\ pkg \in Packages
    /\ rels = <<>>
    /\ media_index_map = <<>>
    /\ next_asset_index = 1
    /\ yielded = <<>>
    /\ handled = <<>>
    /\ asset_files = <<>>
    /\ readerPc = "rels"

\* parse_docx line 382: rels = _get_rels(z)
GetRels ==
    /\ readerPc = "rels"
    /\ IF pkg.relsPart = "corrupt"
       THEN readerPc' = "raised" /\ rels' = rels
       ELSE readerPc' = "body" /\ rels' = _get_rels(pkg)
    /\ UNCHANGED <<pkg, media_index_map, next_asset_index, yielded, handled,
                   asset_files>>
    /\ UNCHANGED exceptReader

\* lines 171-182: read and parse word/document.xml, find the body
ReadBody ==
    /\ readerPc = "body"
    /\ readerPc' = CASE pkg.document = "ok" -> "runs"
                     [] pkg.document = "nobody" -> "done"
                     [] OTHER -> "raised"
    /\ UNCHANGED <<pkg, rels, media_index_map, next_asset_index, yielded,
                   handled, asset_files>>
    /\ UNCHANGED exceptReader

\* lines 112-132: _handle_run on the next run of the body
HandleRun(run) ==
    /\ readerPc = "runs"
    /\ Len(handled) < MaxRuns
    /\ handled' = Append(handled, run)
    /\ LET texts == IF run.text # <<>> THEN <<Text(run.text)>> ELSE <<>>
       IN  IF Resolves(run, rels)
           THEN LET target == rels[run.embed]
                    map == MapAfter(media_index_map, target, next_asset_index)
                IN  /\ media_index_map' = map
                    /\ next_asset_index' =
                           NextIndexAfter(media_index_map, target, next_asset_index)
                    /\ yielded' = yielded \o texts
                                  \o <<ImageBlockOf(run, map[target], target)>>
           ELSE /\ yielded' = yielded \o texts
                /\ UNCHANGED <<media_index_map, next_asset_index>>
    /\ UNCHANGED <<pkg, rels, asset_files, readerPc>>
    /\ UNCHANGED exceptReader

\* lines 196-206: after the last paragraph, write the media files
ExtractMedia ==
    /\ readerPc = "runs"
    /\ asset_files' = ExtractedFiles(media_index_map)
    /\ readerPc' = "done"
    /\ UNCHANGED <<pkg, rels, media_index_map, next_asset_index, yielded, handled>>
    /\ UNCHANGED exceptReader

InitReader ==
    SegIdle /\ MergeIdle /\ OmmlIdle /\ ReaderInit /\ SanIdle /\ WmfIdle /\ OcrIdle
    /\ FinalIdle

NextReader ==
    \/ GetRels
    \/ ReadBody
    \/ \E run \in Runs : HandleRun(run)
    \/ ExtractMedia

SpecReader == InitReader /\ [][NextReader]_vars

---------------------------------------------------------------------------
(* Claims about the package reader *)

(* C12 *)
\* the media paths referenced so far, in document order
C12_Refs ==
    LET runs == SelectSeq(handled, LAMBDA r : Resolves(r, rels))
    IN  [i \in 1..Len(runs) |-> rels[runs[i].embed]]

C12_ImageBlocks == SelectSeq(yielded, LAMBDA b : b.type = "image")

\* how many different paths have been referenced when path is referenced first
C12_Rank(refs, path) ==
    LET first == CHOOSE i \in 1..Len(refs) :
                     refs[i] = path /\ \A j \in 1..(i - 1) : refs[j] # path
    IN  Cardinality({refs[j] : j \in 1..first})

C12_Ids ==
    LET refs == C12_Refs
        map == media_index_map
    IN  /\ DOMAIN map = {refs[i] : i \in 1..Len(refs)}
        /\ \A t \in DOMAIN map : map[t] = C12_Rank(refs, t)
        /\ {map[t] : t \in DOMAIN map} = 1..Cardinality(DOMAIN map)
        /\ \A t, u \in DOMAIN map : map[t] = map[u] => t = u
        /\ Len(C12_ImageBlocks) = Len(refs)
        /\ \A i \in 1..Len(refs) :
               C12_ImageBlocks[i].url.idx = C12_Rank(refs, refs[i])

C12_Kept ==
    \A t \in DOMAIN media_index_map :
        t \in DOMAIN media_index_map' /\ media_index_map'[t] = media_index_map[t]

\* C12: during one parse the media ids are 1, 2, 3, ... without gaps in the
\* order of first reference; a path referenced again keeps its id and its
\* asset_NNNN name, two paths never share an id, and an assigned id never
\* changes.
C12_MediaIdsSequentialAndKept == [](C12_Ids) /\ [][C12_Kept]_vars

C12_Witness ==
    /\ readerPc = "runs"
    /\ Len(C12_Refs) = 3
    /\ C12_Refs[1] = PartA /\ C12_Refs[2] = PartB /\ C12_Refs[3] = PartA
    /\ C12_ImageBlocks[3].url.idx = 1
    /\ next_asset_index = 3

(* C13 *)
\* C13: after the parse, for every image block whose media part the package
\* holds, the asset directory has a file named exactly as the block's url
\* says, holding that part, whatever the letter case of the part's extension.
C13_EveryImageFileExtracted ==
    readerPc = "done" =>
        \A i \in 1..Len(C12_ImageBlocks) :
            C12_Refs[i] \in MediaParts =>
                /\ C12_ImageBlocks[i].url \in DOMAIN asset_files
                /\ asset_files[C12_ImageBlocks[i].url] = C12_Refs[i]

(* C14 *)
C14_ImageRuns == SelectSeq(handled, LAMBDA r : Resolves(r, rels))

C14_HasExtent(run) ==
    /\ run.extent.found
    /\ run.extent.cx.kind = "int"
    /\ run.extent.cy.kind = "int"

C14_Abs(n) == IF n < 0 THEN 0 - n ELSE n

\* the integer nearest to n / 9525
C14_Nearest(n) ==
    CHOOSE k \in -2..3 : 2 * C14_Abs(n - k * EMU_PER_PX) <= EMU_PER_PX

C14_Sized(block, w, h) ==
    /\ DOMAIN block = {"type", "url", "width", "height"}
    /\ block.width = w /\ block.height = h
    /\ block.width >= 1 /\ block.height >= 1

C14_Bare(block) == DOMAIN block = {"type", "url"}

\* C14 as claimed: an image block has width and height only together; without
\* usable extent metadata it has neither key; with it both are integers >= 1
\* equal to the EMU value divided by 9525, rounded to the nearest integer.
C14_SizeIsRoundedEmu ==
    \A i \in 1..Len(C12_ImageBlocks) :
        LET run == C14_ImageRuns[i]
            block == C12_ImageBlocks[i]
        IN  IF C14_HasExtent(run)
            THEN C14_Sized(block, C14_Nearest(run.extent.cx.v),
                                  C14_Nearest(run.extent.cy.v))
            ELSE C14_Bare(block)

\* C14 amended: as above, but each of width and height is the larger of 1 and
\* the EMU value divided by 9525 rounded to the nearest integer.
C14_SizeIsRoundedEmuAtLeastOne ==
    \A i \in 1..Len(C12_ImageBlocks) :
        LET run == C14_ImageRuns[i]
            block == C12_ImageBlocks[i]
        IN  IF C14_HasExtent(run)
            THEN C14_Sized(block, Max(1, C14_Nearest(run.extent.cx.v)),
                                  Max(1, C14_Nearest(run.extent.cy.v)))
            ELSE C14_Bare(block)

C14_Witness ==
    /\ Len(C12_ImageBlocks) = 3
    /\ C14_ImageRuns[1].extent = Extent(Int_(0), Int_(14288))
    /\ C12_ImageBlocks[1].width = 1 /\ C12_ImageBlocks[1].height = 2
    /\ C14_ImageRuns[2].extent = Extent(Bad, Int_(EMU_PER_PX))
    /\ C14_Bare(C12_ImageBlocks[2])
    /\ C14_ImageRuns[3].extent = Extent(Int_(2 * EMU_PER_PX), Int_(EMU_PER_PX))
    /\ C12_ImageBlocks[3].width = 2 /\ C12_ImageBlocks[3].height = 1

(* C15 *)
\* C15: parse_docx does not raise on a broken package: with the relationship
\* part missing it works with an empty table, and with the document part
\* corrupt or absent, or holding no body, it yields no blocks and finishes.
C15_BrokenPackageNeverRaises ==
    /\ (pkg # None /\ pkg.relsPart = "missing" /\ readerPc # "rels")
           => (rels = <<>> /\ (pkg.document = "ok" => readerPc # "raised"))
    /\ (pkg # None /\ pkg.relsPart # "corrupt"
         /\ pkg.document \in {"corrupt", "missing", "nobody"})
           => (readerPc # "raised" /\ yielded = <<>>)

---------------------------------------------------------------------------
(* sanitize_latex of latex_converter.py.  A LaTeX string is a sequence of  *)
(* tokens: a control sequence is one token, any other character is one.    *)

MaxPieces == 4

\* s.replace(pat, rep, 1)
RECURSIVE ReplaceFirst(_, _, _)
ReplaceFirst(s, pat, rep) ==
    IF Len(s) < Len(pat) THEN s
    ELSE IF SubSeq(s, 1, Len(pat)) = pat
         THEN rep \o SubSeq(s, Len(pat) + 1, Len(s))
         ELSE <<Head(s)>> \o ReplaceFirst(Tail(s), pat, rep)

\* s.count(pat)
RECURSIVE CountSub(_, _)
CountSub(s, pat) ==
    IF Len(s) < Len(pat) THEN 0
    ELSE IF SubSeq(s, 1, Len(pat)) = pat
         THEN 1 + CountSub(SubSeq(s, Len(pat) + 1, Len(s)), pat)
         ELSE CountSub(Tail(s), pat)

\* s.endswith(pat)
EndsWith(s, pat) ==
    Len(s) >= Len(pat) /\ SubSeq(s, Len(s) - Len(pat) + 1, Len(s)) = pat

\* the order of the loops at lines 66 and 76
SanPairs == <<"[", "(", "{">>

escaped_r(left) ==
    <<"\\right", CASE left = "[" -> "]" [] left = "(" -> ")" [] left = "{" -> "\\}">>

escaped_l(left) == <<"\\left", IF left = "{" THEN "\\{" ELSE left>>

\* lines 71-75
ORPHAN_AFTER ==
    << <<"\\pm">>, <<"\\mp">>, <<"=">>, <<"+">>, <<"-">>, <<"\\cdot">>,
       <<"\\times">>, <<"\\div">>, <<"\\sin">>, <<"\\cos">>, <<"\\tan">>,
       <<"\\left">>, <<"\\quad">>, <<"\\,">>, <<"\\;">>, <<"\\infty">>,
       <<"\\sum">>, <<"\\int">>, <<"\\lim">> >>

\* lines 66-69: the doubled closer before an opener, for one pair
CollapseBeforeOpener(s, left) ==
    ReplaceSub(s, escaped_r(left) \o escaped_r(left) \o escaped_l(left),
               escaped_r(left) \o escaped_l(left))

\* lines 85-87: the while loop over doubled closers
RECURSIVE CollapseDup(_, _, _)
CollapseDup(s, r, to_remove) ==
    IF to_remove > 0 /\ HasSub(s, r \o r)
    THEN CollapseDup(ReplaceFirst(s, r \o r, r), r, to_remove - 1)
    ELSE [s |-> s, to_remove |-> to_remove]

\* lines 91-93: the while loop for one suffix
RECURSIVE StripBefore(_, _, _, _)
StripBefore(s, r, suffix, to_remove) ==
    IF to_remove > 0 /\ HasSub(s, r \o suffix)
    THEN StripBefore(ReplaceFirst(s, r \o suffix, suffix), r, suffix, to_remove - 1)
    ELSE [s |-> s, to_remove |-> to_remove]

\* lines 88-95: the for loop over ORPHAN_AFTER from its k-th entry
RECURSIVE StripOrphans(_, _, _, _)
StripOrphans(s, r, to_remove, k) ==
    IF k > Len(ORPHAN_AFTER) THEN [s |-> s, to_remove |-> to_remove]
    ELSE LET a == StripBefore(s, r, ORPHAN_AFTER[k], to_remove)
         IN  IF a.to_remove <= 0 THEN a
             ELSE StripOrphans(a.s, r, a.to_remove, k + 1)

\* lines 76-98: one pass of the second loop
BalancePair(s, left) ==
    LET r == escaped_r(left)
        to_remove == CountSub(s, r) - CountSub(s, escaped_l(left))
    IN  IF to_remove <= 0 THEN s
        ELSE LET a == CollapseDup(s, r, to_remove)
                 b == StripOrphans(a.s, r, a.to_remove, 1)
             IN  IF b.to_remove > 0 /\ EndsWith(b.s, r)
                 THEN SubSeq(b.s, 1, Len(b.s) - Len(r))
                 ELSE b.s

\* lines 100-108
Doubled == <<"\\pm", "\\mp", "\\cdot", "\\times", "\\div", "\\quad">>

RECURSIVE CollapseDoubled(_, _)
CollapseDoubled(s, k) ==
    IF k > Len(Doubled) THEN s
    ELSE CollapseDoubled(ReplaceSub(s, <<Doubled[k], Doubled[k]>>, <<Doubled[k]>>),
                         k + 1)

\* line 110: re.sub(r"\\sqrt(\d)", r"\\sqrt{\1}", s)
RECURSIVE BraceSqrtDigit(_)
BraceSqrtDigit(s) ==
    IF Len(s) < 2 THEN s
    ELSE IF s[1] = "\\sqrt" /\ s[2] \in Digits
         THEN <<"\\sqrt", "{", s[2], "}">> \o BraceSqrtDigit(SubSeq(s, 3, Len(s)))
         ELSE <<Head(s)>> \o BraceSqrtDigit(Tail(s))

\* lines 60-111
sanitize_latex(latex) ==
    IF latex = <<>> THEN latex
    ELSE LET s1 == CollapseBeforeOpener(
                       CollapseBeforeOpener(
                           CollapseBeforeOpener(latex, SanPairs[1]), SanPairs[2]),
                       SanPairs[3])
             s2 == BalancePair(BalancePair(BalancePair(s1, SanPairs[1]), SanPairs[2]),
                               SanPairs[3])
         IN  BraceSqrtDigit(CollapseDoubled(s2, 1))

\* the pieces the OCR results are made of
Pieces ==
    { escaped_l("("),
      escaped_r("("),
      escaped_l("(") \o <<"x", "+", "1">> \o escaped_r("("),
      escaped_r("["),
      <<"\\sqrt">>,
      <<"2">>,
      <<"+">>,
      <<"\\pm">> }

PieceLists == UNION {[1..n -> Pieces] : n \in 0..MaxPieces}

SanInit ==
    /\ sanIn \in {Concat(ps) : ps \in PieceLists}
    /\ sanOut = <<>>
    /\ sanPc = "in"

Sanitize ==
    /\ sanPc = "in"
    /\ sanOut' = sanitize_latex(sanIn)
    /\ sanPc' = "done"
    /\ UNCHANGED sanIn
    /\ UNCHANGED exceptSan

InitSanitize ==
    SegIdle /\ MergeIdle /\ OmmlIdle /\ ReaderIdle /\ SanInit /\ WmfIdle /\ OcrIdle
    /\ FinalIdle

NextSanitize == Sanitize

SpecSanitize == InitSanitize /\ [][NextSanitize]_vars

(* C16 *)
C16_Excess(s, left) ==
    Max(0, CountSub(s, escaped_r(left)) - CountSub(s, escaped_l(left)))

C16_Removed(left) ==
    CountSub(sanIn, escaped_r(left)) - CountSub(sanOut, escaped_r(left))

\* C16: \left(x+1\right)\right) becomes \left(x+1\right), \sqrt2 becomes
\* \sqrt{2}, and for each of ( [ { the sanitizer removes no more \right
\* closers than the input has in excess of its \left openers.
C16_ClosersRemovedWithinExcess ==
    sanPc = "done" =>
        /\ sanIn = <<"\\left", "(", "x", "+", "1", "\\right", ")", "\\right", ")">>
               => sanOut = <<"\\left", "(", "x", "+", "1", "\\right", ")">>
        /\ sanIn = <<"\\sqrt", "2">> => sanOut = <<"\\sqrt", "{", "2", "}">>
        /\ \A i \in 1..Len(SanPairs) :
               C16_Removed(SanPairs[i]) <= C16_Excess(sanIn, SanPairs[i])

---------------------------------------------------------------------------
(* convert_wmf_to_png of image_converter.py as process_docx calls it.      *)
(* The working directory is fresh (one per session), so no .png exists     *)
(* before the call; Pillow is installed and trims and enhances any png.    *)

MaxWmf == 3

\* how the renderers fare on one file: TRUE when the call returns True, FALSE
\* on a timeout or a non-zero exit.  other: the LibreOffice and the
\* wmf2eps-then-raster calls.
WmfFiles == [im : BOOLEAN, other : BOOLEAN]

\* _find_imagemagick, _find_libreoffice, _find_wmf2eps
Tools == [im : BOOLEAN, soffice : BOOLEAN, wmf2eps : BOOLEAN]

\* pipeline.py line 87: convert_wmf_to_png(work_dir), for_latex left at its
\* default
for_latex(requested) == TRUE

Bump(counts, i) == [counts EXCEPT ![i] = @ + 1]

WmfInit ==
    /\ tools \in Tools
    /\ use_latex \in BOOLEAN
    /\ wmf_files \in UNION {[1..n -> WmfFiles] : n \in 0..MaxWmf}
    /\ method = "None"
    /\ wmfIdx = 1
    /\ png_exists = [i \in 1..Len(wmf_files) |-> FALSE]
    /\ attempts = [i \in 1..Len(wmf_files) |-> 0]
    /\ enhanced = [i \in 1..Len(wmf_files) |-> 0]
    /\ wmfStats = [total |-> 0, success |-> 0]
    /\ wmfPc = "select"

\* lines 252-258: no file to convert
NoWmfFiles ==
    /\ wmfPc = "select"
    /\ wmf_files = <<>>
    /\ wmfPc' = "done"
    /\ UNCHANGED <<tools, use_latex, wmf_files, method, wmfIdx, png_exists,
                   attempts, enhanced, wmfStats>>
    /\ UNCHANGED exceptWmf

\* lines 260-283: the selection, with its test conversions of the first file
SelectMethod ==
    /\ wmfPc = "select"
    /\ wmf_files # <<>>
    /\ LET first == wmf_files[1]
           viaIm == tools.im /\ first.im
           viaLo == tools.im /\ ~first.im /\ tools.soffice
           tryEps == tools.im /\ ~first.im /\ ~tools.soffice /\ tools.wmf2eps
           viaEps == tryEps /\ first.other
       IN  /\ method' = IF viaIm THEN "imagemagick"
                        ELSE IF viaLo THEN "libreoffice"
                        ELSE IF viaEps THEN "wmf2eps"
                        ELSE "None"
           /\ attempts' = IF ~tools.im THEN attempts
                          ELSE IF tryEps THEN Bump(Bump(attempts, 1), 1)
                          ELSE Bump(attempts, 1)
           /\ png_exists' = IF viaIm \/ viaEps
                            THEN [png_exists EXCEPT ![1] = TRUE]
                            ELSE png_exists
           /\ wmfStats' = [total |-> Len(wmf_files), success |-> 0]
           /\ wmfPc' = IF method' = "None" THEN "done" ELSE "loop"
    /\ UNCHANGED <<tools, use_latex, wmf_files, wmfIdx, enhanced>>
    /\ UNCHANGED exceptWmf

\* lines 289-305: the loop body for the file at wmfIdx; success holds ok
ConvertFile ==
    /\ wmfPc = "loop"
    /\ wmfIdx <= Len(wmf_files)
    /\ IF png_exists[wmfIdx]
       THEN /\ wmfStats' = [wmfStats EXCEPT !.success = @ + 1]
            /\ UNCHANGED <<png_exists, attempts, enhanced>>
       ELSE LET success == IF method = "imagemagick" THEN wmf_files[wmfIdx].im
                           ELSE wmf_files[wmfIdx].other
            IN  /\ attempts' = Bump(attempts, wmfIdx)
                /\ png_exists' = [png_exists EXCEPT ![wmfIdx] = success]
                /\ enhanced' = IF success /\ for_latex(use_latex)
                               THEN Bump(enhanced, wmfIdx) ELSE enhanced
                /\ wmfStats' = IF success
                               THEN [wmfStats EXCEPT !.success = @ + 1]
                               ELSE wmfStats
    /\ wmfIdx' = wmfIdx + 1
    /\ UNCHANGED <<tools, use_latex, wmf_files, method, wmfPc>>
    /\ UNCHANGED exceptWmf

\* lines 307-324: every png beside a wmf is trimmed, and enhanced if for_latex
FinalPass ==
    /\ wmfPc = "loop"
    /\ wmfIdx > Len(wmf_files)
    /\ enhanced' = [i \in 1..Len(wmf_files) |->
                       IF png_exists[i] /\ for_latex(use_latex)
                       THEN enhanced[i] + 1 ELSE enhanced[i]]
    /\ wmfPc' = "done"
    /\ UNCHANGED <<tools, use_latex, wmf_files, method, wmfIdx, png_exists,
                   attempts, wmfStats>>
    /\ UNCHANGED exceptWmf

InitWmf ==
    SegIdle /\ MergeIdle /\ OmmlIdle /\ ReaderIdle /\ SanIdle /\ WmfInit /\ OcrIdle
    /\ FinalIdle

NextWmf == NoWmfFiles \/ SelectMethod \/ ConvertFile \/ FinalPass

SpecWmf == InitWmf /\ [][NextWmf]_vars

(* C17 *)
\* the selection, for a first file every renderer converts
C17_Selected ==
    (wmf_files # <<>> /\ wmfPc \in {"loop", "done"}
       /\ wmf_files[1].im /\ wmf_files[1].other)
    => /\ tools.im => method = "imagemagick"
       /\ (~tools.im /\ tools.soffice) => method = "libreoffice"

C17_Kept == wmfPc = "loop" => method' = method

\* C17: with WMF files to convert, the method is the first installed renderer
\* in the order ImageMagick, LibreOffice, wmf2eps (so LibreOffice when it is
\* the only one installed), and the method stays the same for every file.
C17_FirstAvailableRendererSelected == [](C17_Selected) /\ [][C17_Kept]_vars

(* C18 *)
C18_Count(flags) == Cardinality({i \in 1..Len(flags) : flags[i]})

\* C18: with ImageMagick installed, a renderer failure on one file fails only
\* that file: at the end every file of the batch has been attempted and the
\* stats count every file and every png produced, the first file included.
C18_FailureStaysLocal ==
    (wmfPc = "done" /\ wmf_files # <<>> /\ tools.im)
    => /\ \A i \in 1..Len(wmf_files) : attempts[i] >= 1
       /\ wmfStats.total = Len(wmf_files)
       /\ wmfStats.success = C18_Count(png_exists)

(* C20 *)
\* C20: at the end of the run every png rasterized from a WMF has had the
\* enhancement pass exactly once when use_latex is true and never when it is
\* false.
C20_EnhancedOnceIffRequested ==
    wmfPc = "done" =>
        \A i \in 1..Len(wmf_files) :
            png_exists[i] => enhanced[i] = (IF use_latex THEN 1 ELSE 0)

---------------------------------------------------------------------------
(* The OCR stage of latex_converter.py *)

MaxOcrBlocks == 3

\* how _get_latex_ocr fares: it returns; the import fails (ImportError); or
\* LatexOCR() fails with a RuntimeError, or with any other exception
OcrEnvs == {"ok", "import_error", "construct_runtime_error", "construct_other_error"}

\* lines 22-30: "ok", or the exception that leaves the function
_get_latex_ocr(env) ==
    CASE env = "ok" -> "ok"
      [] env = "import_error" -> "RuntimeError"
      [] env = "construct_runtime_error" -> "RuntimeError"
      [] env = "construct_other_error" -> "Exception"

\* a url: absolute (http/https) or relative to the work directory
Url(abs, stem, suffix) == [abs |-> abs, stem |-> stem, suffix |-> suffix]

\* the stems that have a .wmf file in doc-assets
WmfStems == {"asset_0001", "asset_0002"}

\* docx_parser.py lines 126-131: an image block of a run that declares an extent
SizedImage(u, w, h) == [type |-> "image", url |-> u, width |-> w, height |-> h]

OcrBlocks ==
    { Image(Url(FALSE, "asset_0001", ".png")),
      Image(Url(FALSE, "asset_0002", ".png")),
      Image(Url(FALSE, "asset_0003", ".png")),
      Image(Url(FALSE, "asset_0004", ".jpeg")),
      Image(Url(TRUE, "asset_0001", ".png")),
      SizedImage(Url(FALSE, "asset_0002", ".png"), 2, 1),
      Text(<<"a">>) }

\* lines 155-171: the formula pngs the blocks refer to
png_urls(blocks) ==
    { blocks[i].url : i \in
        { j \in 1..Len(blocks) :
            /\ blocks[j].type = "image"
            /\ ~blocks[j].url.abs
            /\ blocks[j].url.suffix = ".png"
            /\ blocks[j].url.stem \in WmfStems } }

\* lines 201-205 on one block: type and content are set and url is deleted;
\* every other key of the block stays
Rewritten(b) ==
    [k \in ((DOMAIN b) \ {"url"}) \cup {"content"} |->
        IF k = "type" THEN "latex"
        ELSE IF k = "content" THEN <<"x">>
        ELSE b[k]]

\* lines 195-205: the blocks with the recognized images replaced
Replaced(blocks, recognized) ==
    [i \in 1..Len(blocks) |->
        IF blocks[i].type = "image" /\ blocks[i].url \in recognized
        THEN Rewritten(blocks[i]) ELSE blocks[i]]

OcrInit ==
    /\ ocrEnv \in OcrEnvs
    /\ ocrBlocks \in UNION {[1..n -> OcrBlocks] : n \in 0..MaxOcrBlocks}
    /\ ocrBefore = ocrBlocks
    /\ ocrStats = None
    /\ ocrReturn = "None"
    /\ ocrPc = "call"

\* lines 142-207: convert_to_latex; recognized: the urls _image_to_latex
\* returns LaTeX for
ConvertToLatex ==
    /\ ocrPc = "call"
    /\ LET urls == png_urls(ocrBlocks)
           total == Cardinality(urls)
       IN  IF urls = {}
           THEN /\ ocrStats' = [total_images |-> 0, converted |-> 0, failed |-> 0]
                /\ ocrPc' = "returned"
                /\ UNCHANGED ocrBlocks
           ELSE IF _get_latex_ocr(ocrEnv) = "RuntimeError"
           THEN /\ ocrStats' = [total_images |-> total, converted |-> 0,
                                failed |-> total]
                /\ ocrPc' = "returned"
                /\ UNCHANGED ocrBlocks
           ELSE IF _get_latex_ocr(ocrEnv) = "Exception"
           THEN /\ ocrPc' = "raised"
                /\ UNCHANGED <<ocrStats, ocrBlocks>>
           ELSE \E recognized \in SUBSET urls :
                    /\ ocrStats' = [total_images |-> total,
                                    converted |-> Cardinality(recognized),
                                    failed |-> total - Cardinality(recognized)]
                    /\ ocrBlocks' = Replaced(ocrBlocks, recognized)
                    /\ ocrPc' = "returned"
    /\ UNCHANGED <<ocrEnv, ocrBefore, ocrReturn>>
    /\ UNCHANGED exceptOcr

\* lines 130-139: recognize_formula_image on one screenshot
RecognizeFormulaImage ==
    /\ ocrPc = "call"
    /\ IF _get_latex_ocr(ocrEnv) = "RuntimeError"
       THEN ocrReturn' = "None" /\ ocrPc' = "returned"
       ELSE IF _get_latex_ocr(ocrEnv) = "Exception"
       THEN ocrReturn' = ocrReturn /\ ocrPc' = "raised"
       ELSE ocrReturn' \in {"None", "latex"} /\ ocrPc' = "returned"
    /\ UNCHANGED <<ocrEnv, ocrBlocks, ocrBefore, ocrStats>>
    /\ UNCHANGED exceptOcr

InitOcr ==
    SegIdle /\ MergeIdle /\ OmmlIdle /\ ReaderIdle /\ SanIdle /\ WmfIdle /\ OcrInit
    /\ FinalIdle

NextOcr == ConvertToLatex \/ RecognizeFormulaImage

SpecOcr == InitOcr /\ [][NextOcr]_vars

(* C19 *)
\* C19: when the OCR component cannot be loaded or constructed no exception
\* reaches the caller: convert_to_latex returns converted = 0 and
\* failed = total_images with every block unchanged, and
\* recognize_formula_image returns None.
C19_UnavailableOcrIsSoft ==
    (ocrEnv # "ok" /\ ocrPc \notin {"idle", "call"}) =>
        /\ ocrPc = "returned"
        /\ ocrReturn = "None"
        /\ ocrBlocks = ocrBefore
        /\ ocrStats # None =>
               /\ ocrStats.converted = 0
               /\ ocrStats.failed = ocrStats.total_images
               /\ ocrStats.total_images = Cardinality(png_urls(ocrBefore))

---------------------------------------------------------------------------
(* The segmenter, one paragraph at a time *)

\* lines 237-238
ParaText(blocks) == Strip(_get_paragraph_text(blocks))

\* the paragraph takes the branch of line 244
IsNumbered(blocks) == ~IsHeading(ParaText(blocks)) /\ OpensQuestion(ParaText(blocks))

\* the paragraph takes the branch of line 240
IsHeadingParagraph(blocks) == IsHeading(ParaText(blocks))

\* the questions the segmenter has opened so far, the open one last
Emitted ==
    IF pc = "scan" /\ current # None THEN Append(questions, current) ELSE questions

\* what a section gained in the step, the separator of line 225 apart
Gained(old, new) ==
    LET added == SubSeq(new, Len(old) + 1, Len(new))
    IN  IF old # <<>> /\ added # <<>> /\ Head(added) = Text(<<NL>>)
        THEN Tail(added) ELSE added

\* the marker whose branch a continuing paragraph takes (lines 274, 291, 308)
MarkerOf(blocks) ==
    IF SwitchesToAnswer(ParaText(blocks)) THEN ANS
    ELSE IF SwitchesToAnalysis(ParaText(blocks)) THEN ANA
    ELSE IF SwitchesToDetail(ParaText(blocks)) THEN DET
    ELSE "none"

\* a text block that holds nothing but the numeral of its numbered paragraph,
\* or nothing but the marker of its marker paragraph and white space
HoldsOnlyLabel(blocks, b) ==
    /\ IsNonEmptyText(b)
    /\ IF IsNumbered(blocks) THEN SubNumeral(b.content, {FWDOT, DOT}) = <<>>
       ELSE /\ Contains(b.content, MarkerOf(blocks))
            /\ Strip(RemoveAll(b.content, MarkerOf(blocks))) = <<>>

\* the blocks of a paragraph that hold more than its label
Payload(blocks) == SelectSeq(blocks, LAMBDA b : ~HoldsOnlyLabel(blocks, b))

\* The step lands `n` blocks of the paragraph it takes, the blocks that are
\* not text among them unchanged and in order: a numbered paragraph closes
\* the open question and opens one whose body holds them; a paragraph read
\* while no question is open, and a heading, land nothing; any other
\* paragraph lands them at the end of one section of the open question and
\* touches nothing else.
Lands(n, kept) ==
    IF IsHeadingParagraph(Taken) THEN questions' = questions /\ current' = current
    ELSE IF IsNumbered(Taken)
    THEN /\ questions' = Emitted
         /\ current' # None
         /\ Len(current'.questionBody) = n
         /\ NonText(current'.questionBody) = NonText(kept)
         /\ \A k \in SectionKeys \ {"questionBody"} : current'[k] = <<>>
    ELSE IF current = None THEN questions' = questions /\ current' = None
    ELSE /\ questions' = questions
         /\ \E sec \in SectionKeys :
              /\ \A k \in (DOMAIN current) \ {sec} : current'[k] = current[k]
              /\ Len(current'[sec]) >= Len(current[sec])
              /\ SubSeq(current'[sec], 1, Len(current[sec])) = current[sec]
              /\ Len(Gained(current[sec], current'[sec])) = n
              /\ NonText(Gained(current[sec], current'[sec])) = NonText(kept)

\* one question per numbered paragraph, in stream order (the number of the
\* k-th question is the numeral of the k-th numbered paragraph)
OneQuestionPerNumbered ==
    LET numbered == SelectSeq(filtered, IsNumbered)
    IN  /\ Len(Emitted) = Len(numbered)
        /\ \A k \in 1..Len(numbered) :
              Emitted[k].index = NumeralValue(ParaText(numbered[k]))

Separator == Text(<<NL>>)

\* a section neither starts nor ends with a separator and has no two in a row
\* (no paragraph of the documents holds a block that is itself a newline)
WellSeparated(section) ==
    /\ section # <<>> => Head(section) # Separator /\ section[Len(section)] # Separator
    /\ \A i \in 1..(Len(section) - 1) :
          ~(section[i] = Separator /\ section[i + 1] = Separator)

\* what the step appended to the one section it changed is the blocks the
\* paragraph contributes, after one separator when the section had content
\* and the paragraph contributes a block, and after nothing otherwise
C26_Step ==
    (/\ TakesParagraph
     /\ current # None
     /\ ~IsHeadingParagraph(Taken)
     /\ ~IsNumbered(Taken))
    => \A sec \in SectionKeys :
          LET old == current[sec]
              added == SubSeq(current'[sec], Len(old) + 1, Len(current'[sec]))
              n == Len(Payload(Taken))
          IN  added # <<>> =>
                /\ n > 0
                /\ IF old # <<>>
                   THEN /\ Len(added) = n + 1
                        /\ Head(added) = Separator
                        /\ \A i \in 2..Len(added) : added[i] # Separator
                   ELSE /\ Len(added) = n
                        /\ \A i \in 1..Len(added) : added[i] # Separator

\* C26: a paragraph appended to a section that has content is preceded by
\* exactly one text block "\n"; no separator is added at the start of a
\* section, for a paragraph that contributes no block, or between the blocks
\* of one paragraph; so no section starts or ends with a separator or has two
\* in a row.
C26_OneSeparatorBetweenAppends ==
    /\ [][C26_Step]_vars
    /\ [](\A i \in 1..Len(Emitted) :
             \A sec \in SectionKeys : WellSeparated(Emitted[i][sec]))

\* a paragraph of three blocks was appended to a body that had content, and
\* a marker paragraph that contributes no block left its section empty
C26_Witness ==
    /\ pc = "scan"
    /\ current # None
    /\ Len(filtered) = 3
    /\ Len(filtered[2]) = 3
    /\ Len(current.questionBody) = 5
    /\ current.questionBody[2] = Separator
    /\ Payload(filtered[3]) = <<>>
    /\ state = "analysis"
    /\ current.analysis = <<>>

(* C27 *)
\* the paragraph holds one of the three section markers
CarriesMarker(blocks) ==
    \E m \in {ANS, ANA, DET} : Contains(_get_paragraph_text(blocks), m)

\* C27: the noise filter drops no paragraph that opens a question and none
\* that carries a section marker, so every numbered paragraph of the document
\* yields a question record.
C27_FilterKeepsQuestionParagraphs ==
    /\ SelectSeq(filtered, IsNumbered) = SelectSeq(paragraphs_blocks, IsNumbered)
    /\ SelectSeq(filtered, CarriesMarker) = SelectSeq(paragraphs_blocks, CarriesMarker)
    /\ pc = "done" =>
          Len(result) = Len(SelectSeq(paragraphs_blocks, IsNumbered))

(* C29 *)
\* as many \right closers as \left openers, for each of ( [ {
C29_Balanced(s) ==
    \A i \in 1..Len(SanPairs) :
        CountSub(s, escaped_r(SanPairs[i])) = CountSub(s, escaped_l(SanPairs[i]))

\* C29: when the input has, for each of ( [ {, as many \right closers as
\* \left openers, the output has the same number of \left and of \right of
\* each kind as the input.
C29_BalancedStaysBalanced ==
    (sanPc = "done" /\ C29_Balanced(sanIn)) =>
        \A i \in 1..Len(SanPairs) :
            /\ CountSub(sanOut, escaped_l(SanPairs[i]))
                 = CountSub(sanIn, escaped_l(SanPairs[i]))
            /\ CountSub(sanOut, escaped_r(SanPairs[i]))
                 = CountSub(sanIn, escaped_r(SanPairs[i]))

(* C24 *)
\* the payload of the tag and nothing else: content for text and latex; url,
\* with or without the width and height pair, for image and svg
C24_HasPayloadOfTag(b) ==
    IF b.type \in {"text", "latex"}
    THEN DOMAIN b = {"type", "content"}
    ELSE /\ b.type \in {"image", "svg"}
         /\ DOMAIN b \in {{"type", "url"}, {"type", "url", "width", "height"}}

\* C24: every block convert_to_latex leaves in the questions has exactly the
\* payload of its tag: a text or latex block has content and no url, width or
\* height; an image or svg block has url and no content.
C24_BlocksHavePayloadOfTag ==
    ocrPc = "returned" =>
        \A i \in 1..Len(ocrBlocks) : C24_HasPayloadOfTag(ocrBlocks[i])

---------------------------------------------------------------------------
(* replace_wmf_urls of image_converter.py.  A string is a sequence of      *)
(* tokens: a character, or one of the suffixes ".wmf" and ".png".          *)

MaxRwBlocks == 2

QUOTE == "\""
BACKSLASH == "\\"

\* line 331: json.dumps on a string, between the quotes: " and \ are escaped
RECURSIVE json_escape(_)
json_escape(s) ==
    IF s = <<>> THEN <<>>
    ELSE (IF Head(s) \in {QUOTE, BACKSLASH} THEN <<BACKSLASH, Head(s)>>
          ELSE <<Head(s)>>)
         \o json_escape(Tail(s))

\* line 333: json.loads on what is between the quotes
RECURSIVE json_unescape(_)
json_unescape(t) ==
    IF t = <<>> THEN <<>>
    ELSE IF Head(t) = BACKSLASH /\ Len(t) >= 2
         THEN <<t[2]>> \o json_unescape(Tail(Tail(t)))
         ELSE <<Head(t)>> \o json_unescape(Tail(t))

\* line 332: s.replace('.wmf"', '.png"')
RECURSIVE ReplaceWmfQuote(_)
ReplaceWmfQuote(t) ==
    IF t = <<>> THEN <<>>
    ELSE IF Len(t) >= 2 /\ t[1] = ".wmf" /\ t[2] = QUOTE
         THEN <<".png", QUOTE>> \o ReplaceWmfQuote(Tail(Tail(t)))
         ELSE <<Head(t)>> \o ReplaceWmfQuote(Tail(t))

\* lines 331-333 on one string value of the structure: it is written between
\* quotes, the text is replaced, and it is read back
ReplaceInString(s) ==
    LET dumped == <<QUOTE>> \o json_escape(s) \o <<QUOTE>>
        replaced == ReplaceWmfQuote(dumped)
    IN  json_unescape(SubSeq(replaced, 2, Len(replaced) - 1))

\* lines 331-333 on one block: every string value goes through the text (the
\* keys and the tags do not end in .wmf; numbers are written without quotes)
ReplaceInBlock(b) ==
    [k \in DOMAIN b |->
        IF k \in {"content", "url"} THEN ReplaceInString(b[k]) ELSE b[k]]

\* lines 327-333
replace_wmf_urls(qs) ==
    [i \in 1..Len(qs) |->
        [qs[i] EXCEPT !.questionBody =
            [j \in 1..Len(@) |-> ReplaceInBlock(@[j])]]]

RwBlocks ==
    { Image(<<"doc-assets/asset_0001", ".wmf">>),
      SizedImage(<<"doc-assets/asset_0002", ".wmf">>, 2, 1),
      Image(<<"doc-assets/asset_0003", ".png">>),
      Text(<<"a", ".wmf">>),                        \* the text  a.wmf
      Text(<<"a", ".wmf", QUOTE, "b">>),            \* the text  a.wmf"b
      Latex(<<"x">>) }

RwBodies == UNION {[1..n -> RwBlocks] : n \in 0..MaxRwBlocks}

\* one question, or two
RwQuestions ==
    {<<[index |-> 1, questionBody |-> b]>> : b \in RwBodies}
    \cup {<<[index |-> 1, questionBody |-> b[1]], [index |-> 2, questionBody |-> b[2]]>> :
            b \in RwBodies \X RwBodies}

RwInit ==
    /\ rwIn \in RwQuestions
    /\ rwOut = <<>>
    /\ rwPc = "in"

ReplaceWmfUrls ==
    /\ rwPc = "in"
    /\ rwOut' = replace_wmf_urls(rwIn)
    /\ rwPc' = "done"
    /\ UNCHANGED rwIn
    /\ UNCHANGED exceptRw

InitReplace == EarlierIdle /\ RwInit /\ ExpIdle /\ TaskIdle /\ PlIdle

NextReplace == ReplaceWmfUrls

SpecReplace == InitReplace /\ [][NextReplace]_vars

(* C30 *)
\* the url of an image block that ends in .wmf, with .png in its place
C30_Expected(b) ==
    IF b.type = "image" /\ b.url[Len(b.url)] = ".wmf"
    THEN [b EXCEPT !.url = SubSeq(@, 1, Len(@) - 1) \o <<".png">>]
    ELSE b

\* C30: replace_wmf_urls changes only the url of the image blocks whose url
\* ends in .wmf, to the same stem with .png; the content of text and latex
\* blocks, the other fields, and the number and order of blocks and questions
\* are unchanged, whatever the text is.
C30_OnlyWmfUrlsChange ==
    rwPc = "done" =>
        /\ Len(rwOut) = Len(rwIn)
        /\ \A i \in 1..Len(rwIn) :
              /\ rwOut[i].index = rwIn[i].index
              /\ Len(rwOut[i].questionBody) = Len(rwIn[i].questionBody)
              /\ \A j \in 1..Len(rwIn[i].questionBody) :
                    rwOut[i].questionBody[j] = C30_Expected(rwIn[i].questionBody[j])

---------------------------------------------------------------------------
(* docx_exporter.py: _latex_to_omml and _add_blocks_to_paragraph *)

MaxExpBlocks == 3

\* the formulas of the blocks: x, and the malformed \frac{
ExpFormulas == {<<"x">>, <<"\\frac", "{">>}

\* how the steps of lines 259-267 fare: the library is installed or the
\* import raises ImportError; on the formulas of `good` the conversion, the
\* XML parse and the walk all return, on the others one of them raises
ExpEnvs == [installed : BOOLEAN, good : SUBSET ExpFormulas]

\* what leaves the body of the try block of lines 258-268
Attempt(env, latex_str) ==
    IF ~env.installed THEN [kind |-> "raised", latex |-> <<"ImportError">>]
    ELSE IF latex_str \notin env.good THEN [kind |-> "raised", latex |-> <<"Exception">>]
    ELSE [kind |-> "oMath", latex |-> latex_str]

\* the function without its except clause
_latex_to_omml_NoCatch(env, latex_str) == Attempt(env, latex_str)

\* lines 256-270: any Exception, ImportError included, becomes None
_latex_to_omml(env, latex_str) ==
    IF Attempt(env, latex_str).kind = "raised"
    THEN [kind |-> "None", latex |-> <<>>]
    ELSE Attempt(env, latex_str)

\* what a paragraph holds
TextRun(text) == [kind |-> "run", text |-> text, italic |-> FALSE, font |-> "default"]
StyledRun(text) == [kind |-> "run", text |-> text, italic |-> TRUE, font |-> "Cambria Math"]
OMathItem(latex) == [kind |-> "oMath", text |-> latex, italic |-> FALSE, font |-> "default"]
Picture(url) == [kind |-> "picture", text |-> <<url>>, italic |-> FALSE, font |-> "default"]

\* `item` added at the end of the last paragraph
AddToLast(paras, item) ==
    [paras EXCEPT ![Len(paras)] = Append(@, item)]

\* lines 411-418: the lines of a text block; every line after the first opens
\* a paragraph, an empty line adds no run
RECURSIVE AddLines(_, _, _)
AddLines(paras, lines, first) ==
    IF lines = <<>> THEN paras
    ELSE LET opened == IF first THEN paras ELSE Append(paras, <<>>)
             written == IF Head(lines) # <<>>
                        THEN AddToLast(opened, TextRun(Head(lines))) ELSE opened
         IN  AddLines(written, Tail(lines), FALSE)

\* content.split("\n")
RECURSIVE SplitLines(_, _)
SplitLines(acc, content) ==
    IF content = <<>> THEN <<acc>>
    ELSE IF Head(content) = NL THEN <<acc>> \o SplitLines(<<>>, Tail(content))
    ELSE SplitLines(Append(acc, Head(content)), Tail(content))

ExpBlocks ==
    { Text(<<"a">>), Text(<<"a", NL, "b">>), Latex(<<"x">>),
      Latex(<<"\\frac", "{">>), Latex(<<>>), Image("u1") }

ExpInit ==
    /\ expEnv \in ExpEnvs
    /\ expBlocks \in UNION {[1..n -> ExpBlocks] : n \in 0..MaxExpBlocks}
    /\ expIdx = 1
    /\ expParas = <<(<<>>)>>
    /\ expPc = "loop"

\* lines 406-418: a text block
WriteText ==
    /\ expPc = "loop" /\ expIdx <= Len(expBlocks)
    /\ expBlocks[expIdx].type = "text"
    /\ LET content == expBlocks[expIdx].content
       IN  expParas' = IF content = <<>> THEN expParas
                       ELSE AddLines(expParas, SplitLines(<<>>, content), TRUE)
    /\ expIdx' = expIdx + 1
    /\ UNCHANGED <<expEnv, expBlocks, expPc>>
    /\ UNCHANGED exceptExp

\* lines 420-430: a latex block
WriteLatex ==
    /\ expPc = "loop" /\ expIdx <= Len(expBlocks)
    /\ expBlocks[expIdx].type = "latex"
    /\ LET content == expBlocks[expIdx].content
           omml == _latex_to_omml(expEnv, content)
       IN  IF content = <<>>
           THEN expParas' = expParas /\ expIdx' = expIdx + 1 /\ expPc' = expPc
           ELSE IF omml.kind = "raised"
           THEN expParas' = expParas /\ expIdx' = expIdx /\ expPc' = "raised"
           ELSE /\ expParas' =
                     IF omml.kind # "None"
                     THEN AddToLast(expParas, OMathItem(omml.latex))
                     ELSE AddToLast(expParas, StyledRun(<<SP>> \o content \o <<SP>>))
                /\ expIdx' = expIdx + 1
                /\ expPc' = expPc
    /\ UNCHANGED <<expEnv, expBlocks>>
    /\ UNCHANGED exceptExp

\* lines 432-446: an image block; the download and the insertion succeed, or
\* the placeholder is written
WriteImage ==
    /\ expPc = "loop" /\ expIdx <= Len(expBlocks)
    /\ expBlocks[expIdx].type \in {"image", "svg"}
    /\ \E drawn \in BOOLEAN :
          expParas' = IF drawn THEN AddToLast(expParas, Picture(expBlocks[expIdx].url))
                      ELSE AddToLast(expParas, TextRun(<<"[picture]">>))
    /\ expIdx' = expIdx + 1
    /\ UNCHANGED <<expEnv, expBlocks, expPc>>
    /\ UNCHANGED exceptExp

\* line 448
ReturnParas ==
    /\ expPc = "loop" /\ expIdx > Len(expBlocks)
    /\ expPc' = "done"
    /\ UNCHANGED <<expEnv, expBlocks, expIdx, expParas>>
    /\ UNCHANGED exceptExp

InitExport == EarlierIdle /\ RwIdle /\ ExpInit /\ TaskIdle /\ PlIdle

NextExport == WriteText \/ WriteLatex \/ WriteImage \/ ReturnParas

SpecExport == InitExport /\ [][NextExport]_vars

(* C21 *)
\* the step writes a latex block that has content
C21_WritesFormula ==
    /\ expPc = "loop" /\ expIdx <= Len(expBlocks)
    /\ expBlocks[expIdx].type = "latex"
    /\ expBlocks[expIdx].content # <<>>

\* whether the library turns the formula into an element
C21_Convertible(latex_str) == expEnv.installed /\ latex_str \in expEnv.good

C21_Step ==
    C21_WritesFormula =>
        LET content == expBlocks[expIdx].content
            n == Len(expParas)
        IN  /\ expPc' = "loop" /\ expIdx' = expIdx + 1
            /\ Len(expParas') = n
            /\ \A i \in 1..(n - 1) : expParas'[i] = expParas[i]
            /\ expParas'[n] =
                 Append(expParas[n],
                        IF C21_Convertible(content) THEN OMathItem(content)
                        ELSE StyledRun(<<SP>> \o content \o <<SP>>))

\* C21: _latex_to_omml returns a math element or None and never raises,
\* whatever the formula and whether or not the library is installed; when it
\* returns None the exporter writes the raw LaTeX as a styled run in the same
\* paragraph and goes on with the blocks that follow.
C21_UnconvertibleFormulaIsWrittenAsText ==
    /\ [](expPc # "raised")
    /\ [](\A f \in ExpFormulas :
             _latex_to_omml(expEnv, f).kind \in {"oMath", "None"})
    /\ [][C21_Step]_vars
    /\ [](expPc = "done" => expIdx = Len(expBlocks) + 1)

\* a formula the library could not convert was written as a styled run, and
\* the block after it was written behind it in the same paragraph
C21_Witness ==
    /\ expPc = "done"
    /\ Len(expBlocks) = 3
    /\ expBlocks[2] = Latex(<<"\\frac", "{">>)
    /\ expEnv.installed /\ expEnv.good = {<<"x">>}
    /\ expBlocks[3] = Latex(<<"x">>)
    /\ Len(expParas) = 1
    /\ \E i \in 1..(Len(expParas[1]) - 1) :
          /\ expParas[1][i] = StyledRun(<<SP, "\\frac", "{", SP>>)
          /\ expParas[1][i + 1] = OMathItem(<<"x">>)

---------------------------------------------------------------------------
(* The upload task: views.py creates it, async_task.py runs it *)

\* upload_task.py lines 24-34, as views.py lines 233-241 creates the record
NewTask(use) ==
    [status |-> "pending", progress |-> 0, error_msg |-> "", result |-> "",
     use_latex |-> use]

\* the text of the exception that leaves process_docx, or that leaves a save
DocxErrors ==
    { "File is not a zip file",                     \* zipfile.BadZipFile
      "There is no item named 'word/document.xml'", \* KeyError
      "not well-formed (invalid token)",            \* ElementTree.ParseError
      "No space left on device" }                   \* OSError
SaveError == "save failed"
MissingFile == "temporary file missing"     \* the text of line 31

\* what process_docx returns for the task
ResultOf(use) == IF use THEN "result with latex" ELSE "result with images"

\* views.py lines 218-243: the docx is written, the record is saved as pending
\* and the thread is started; before the thread runs the record may have been
\* deleted, and the file with it (views.py lines 278-287)
TaskInit ==
    /\ \E use \in BOOLEAN : task \in {NewTask(use), None}
    /\ mem = None
    /\ tmp_file \in BOOLEAN
    /\ raising = ""
    /\ unlinked = "no"
    /\ taskPc = "get"

\* lines 18-21
GetTask ==
    /\ taskPc = "get"
    /\ IF task = None
       THEN taskPc' = "returned" /\ mem' = mem
       ELSE taskPc' = "mark" /\ mem' = task
    /\ UNCHANGED <<task, tmp_file, raising, unlinked>>
    /\ UNCHANGED exceptTask

\* task.save(): the record takes the fields of the object, or the save raises
Saved(obj, ok) == IF ok THEN obj ELSE task

\* lines 23-25
MarkProcessing ==
    /\ taskPc = "mark"
    /\ mem' = [mem EXCEPT !.status = "processing", !.progress = 10]
    /\ \E ok \in BOOLEAN :
          /\ task' = Saved(mem', ok)
          /\ taskPc' = IF ok THEN "check" ELSE "raised"
          /\ raising' = IF ok THEN "" ELSE SaveError
    /\ UNCHANGED <<tmp_file, unlinked>>
    /\ UNCHANGED exceptTask

\* lines 27-33
CheckFile ==
    /\ taskPc = "check"
    /\ IF tmp_file
       THEN /\ taskPc' = "start"
            /\ UNCHANGED <<task, mem, raising>>
       ELSE /\ mem' = [mem EXCEPT !.status = "failed", !.progress = 0,
                                  !.error_msg = MissingFile]
            /\ \E ok \in BOOLEAN :
                  /\ task' = Saved(mem', ok)
                  /\ taskPc' = IF ok THEN "returned" ELSE "raised"
                  /\ raising' = IF ok THEN "" ELSE SaveError
    /\ UNCHANGED <<tmp_file, unlinked>>
    /\ UNCHANGED exceptTask

\* lines 36-37
StartParse ==
    /\ taskPc = "start"
    /\ mem' = [mem EXCEPT !.progress = 30]
    /\ \E ok \in BOOLEAN :
          /\ task' = Saved(mem', ok)
          /\ taskPc' = IF ok THEN "run" ELSE "handler"
          /\ raising' = IF ok THEN "" ELSE SaveError
    /\ UNCHANGED <<tmp_file, unlinked>>
    /\ UNCHANGED exceptTask

\* lines 39-49: process_docx returns and the result is stored, or it raises
RunParse ==
    /\ taskPc = "run"
    /\ \/ \E e \in DocxErrors :
            /\ raising' = e
            /\ taskPc' = "handler"
            /\ UNCHANGED <<task, mem>>
       \/ /\ mem' = [mem EXCEPT !.status = "completed", !.progress = 100,
                                !.result = ResultOf(mem.use_latex),
                                !.error_msg = ""]
          /\ \E ok \in BOOLEAN :
                /\ task' = Saved(mem', ok)
                /\ taskPc' = IF ok THEN "finally" ELSE "handler"
                /\ raising' = IF ok THEN "" ELSE SaveError
    /\ UNCHANGED <<tmp_file, unlinked>>
    /\ UNCHANGED exceptTask

\* the handler without line 52
MarkFailed_KeepsProgress(obj, msg) ==
    [obj EXCEPT !.status = "failed", !.error_msg = msg, !.result = ""]

\* lines 51-54
MarkFailed(obj, msg) ==
    [obj EXCEPT !.status = "failed", !.progress = 0, !.error_msg = msg,
                !.result = ""]

\* lines 50-55
HandleError ==
    /\ taskPc = "handler"
    /\ mem' = MarkFailed(mem, raising)
    /\ \E ok \in BOOLEAN :
          /\ task' = Saved(mem', ok)
          /\ raising' = IF ok THEN "" ELSE SaveError
    /\ taskPc' = "finally"
    /\ UNCHANGED <<tmp_file, unlinked>>
    /\ UNCHANGED exceptTask

\* lines 56-60: the unlink removes the file, or raises and is ignored; then
\* the function returns, or the exception in flight leaves it
Finally ==
    /\ taskPc = "finally"
    /\ \E ok \in BOOLEAN :
          /\ unlinked' = IF ok THEN "ok" ELSE "failed"
          /\ tmp_file' = IF ok THEN FALSE ELSE tmp_file
    /\ taskPc' = IF raising = "" THEN "returned" ELSE "raised"
    /\ UNCHANGED <<task, mem, raising>>
    /\ UNCHANGED exceptTask

InitTask == EarlierIdle /\ RwIdle /\ ExpIdle /\ TaskInit /\ PlIdle

NextTask ==
    \/ GetTask \/ MarkProcessing \/ CheckFile \/ StartParse
    \/ RunParse \/ HandleError \/ Finally

SpecTask == InitTask /\ [][NextTask]_vars

(* C28 *)
C28_Rank(st) ==
    CASE st = "pending" -> 0
      [] st = "processing" -> 1
      [] st \in {"completed", "failed"} -> 2

\* the record moves forward only, and not out of completed or failed
C28_StatusMovesForward ==
    (task # None /\ task' # None) =>
        /\ C28_Rank(task'.status) >= C28_Rank(task.status)
        /\ task.status \in {"completed", "failed"} => task'.status = task.status
        /\ (task.status = "pending" /\ task'.status # "pending")
               => task'.status = "processing"

\* on return the record is completed with its result, or failed with a message
C28_Settled ==
    (taskPc = "returned" /\ task # None) =>
        \/ /\ task.status = "completed" /\ task.progress = 100
           /\ task.result = ResultOf(task.use_latex)
        \/ /\ task.status = "failed" /\ task.progress = 0
           /\ task.error_msg \in DocxErrors \cup {SaveError, MissingFile}

\* the run found the file of the task (line 28)
C28_FoundFile ==
    /\ taskPc = "returned" /\ task # None
    /\ ~(task.status = "failed" /\ task.error_msg = MissingFile)

\* C28 as stated: the status only moves pending -> processing -> completed or
\* failed; when run_parse_task returns for an existing task the record is
\* completed (progress 100, result stored) or failed (progress 0, message
\* stored); and the temporary docx of a task that reached processing with an
\* existing file has been deleted.
C28_TaskSettlesAndFileIsDeleted ==
    /\ [][C28_StatusMovesForward]_vars
    /\ []C28_Settled
    /\ [](C28_FoundFile => ~tmp_file)

\* C28: the status only moves pending -> processing -> completed or failed;
\* when run_parse_task returns for an existing task the record is completed
\* (progress 100, result stored) or failed (progress 0, message stored); and
\* for a task that reached processing with an existing file the deletion of
\* the temporary docx has been attempted: the file is gone unless that
\* deletion itself failed.
C28_TaskSettlesAndDeletionIsAttempted ==
    /\ [][C28_StatusMovesForward]_vars
    /\ []C28_Settled
    /\ [](C28_FoundFile =>
            /\ unlinked # "no"
            /\ unlinked = "ok" => ~tmp_file)

\* the parse failed, the record says so and the file is gone
C28_Witness ==
    /\ taskPc = "returned"
    /\ task # None
    /\ task.status = "failed" /\ task.progress = 0
    /\ task.error_msg \in DocxErrors
    /\ unlinked = "ok" /\ ~tmp_file

----------------------------------------------------------------------------
(* pipeline.py: process_docx, two runs at a time *)

\* the runs of process_docx in flight (two threads of async_task.py)
PlRuns == {1, 2}

\* the session directories uuid4().hex[:12] can name
SessionIds == {1, 2}

PlStems == <<"asset_0001", "asset_0002">>

File(stem, suffix) == [stem |-> stem, suffix |-> suffix]

\* the documents: the body of their one question, item by item ("math": a
\* native Office Math formula, "wmf": an embedded WMF picture, "png": an
\* embedded PNG picture, "text": a text run)
PlDocs == {<<"math", "wmf", "png">>, <<"wmf", "wmf">>, <<"text">>}

IsMedia(item) == item \in {"wmf", "png"}

\* the position of item i among the media of the document
RECURSIVE MediaIndex(_, _)
MediaIndex(doc, i) ==
    IF i = 0 THEN 0
    ELSE MediaIndex(doc, i - 1) + (IF IsMedia(doc[i]) THEN 1 ELSE 0)

\* docx_parser.py lines 105-151: the block of item i
ParsedBlock(doc, i) ==
    CASE doc[i] = "math" -> Latex(<<"x">>)
      [] doc[i] = "text" -> Text(<<"a">>)
      [] doc[i] = "wmf" -> SizedImage(Url(FALSE, PlStems[MediaIndex(doc, i)], ".wmf"), 2, 1)
      [] OTHER -> Image(Url(FALSE, PlStems[MediaIndex(doc, i)], ".png"))

ParsedBlocks(doc) == [i \in 1..Len(doc) |-> ParsedBlock(doc, i)]

\* docx_parser.py _extract_paragraphs_and_media: the files written into doc-assets
Extracted(doc) ==
    {File(PlStems[MediaIndex(doc, i)], "." \o doc[i]) : i \in {j \in 1..Len(doc) : IsMedia(doc[j])}}

\* a session id every earlier run already uses
NewSessionId_Fixed(used) == 1

\* pipeline.py line 46: uuid4().hex[:12], an id no other run has
NewSessionId(used) == CHOOSE s \in SessionIds : s \notin used

\* tos_upload.py: CONTENT_IMAGE_EXTS
is_content_image_ext(suffix) == suffix \in {".png", ".jpg", ".jpeg", ".gif", ".webp"}

\* pipeline.py lines 65-84 on the blocks of one body; tos: upload_content_image
\* returns a url
RECURSIVE UploadContentImages(_, _, _)
UploadContentImages(blocks, dir, tos) ==
    IF blocks = <<>>
    THEN [blocks |-> <<>>, total |-> 0, uploaded |-> 0, skipped |-> 0, failed |-> 0]
    ELSE LET b == Head(blocks)
             rest == UploadContentImages(Tail(blocks), dir, tos)
         IN  IF b.type # "image" \/ ~is_content_image_ext(b.url.suffix)
             THEN [rest EXCEPT !.blocks = <<b>> \o @]
             ELSE IF File(b.url.stem, b.url.suffix) \notin dir
             THEN [rest EXCEPT !.blocks = <<b>> \o @, !.total = @ + 1, !.skipped = @ + 1]
             ELSE IF tos
             THEN [rest EXCEPT !.blocks = <<[b EXCEPT !.url.abs = TRUE]>> \o @,
                               !.total = @ + 1, !.uploaded = @ + 1]
             ELSE [rest EXCEPT !.blocks = <<b>> \o @, !.total = @ + 1, !.failed = @ + 1]

\* image_converter.py line 250: sorted(doc_assets_dir.glob("*.wmf"))
SortedWmf(dir) == SelectSeq(PlStems, LAMBDA s : File(s, ".wmf") \in dir)

\* image_converter.py lines 99-142: _convert_imagemagick on one file; renders:
\* the stems convert turns into a PNG
\* the directory afterwards
ConvertedDir(dir, stem, renders) ==
    IF stem \in renders THEN dir \cup {File(stem, ".png")} ELSE dir

\* image_converter.py lines 296-313: the files from position i on; the
\* directory and the count of PNGs at the end
RECURSIVE ConvertLoop(_, _, _, _, _)
ConvertLoop(files, i, dir, ok, renders) ==
    IF i > Len(files) THEN [dir |-> dir, ok |-> ok]
    ELSE IF File(files[i], ".png") \in dir
    THEN ConvertLoop(files, i + 1, dir, ok + 1, renders)
    ELSE ConvertLoop(files, i + 1, ConvertedDir(dir, files[i], renders),
                     ok + (IF files[i] \in renders THEN 1 ELSE 0), renders)

\* image_converter.py lines 237-324: convert_wmf_to_png with ImageMagick the
\* one renderer installed
convert_wmf_to_png(dir, renders) ==
    LET files == SortedWmf(dir)
    IN  IF files = <<>>
        THEN [dir |-> dir, stats |-> [total |-> 0, success |-> 0, method |-> "None"]]
        ELSE IF files[1] \notin renders
        THEN [dir |-> dir,
              stats |-> [total |-> Len(files), success |-> 0, method |-> "None"]]
        ELSE LET end == ConvertLoop(files, 1, ConvertedDir(dir, files[1], renders), 0, renders)
             IN  [dir |-> end.dir,
                  stats |-> [total |-> Len(files), success |-> end.ok,
                             method |-> "imagemagick"]]

\* image_converter.py lines 327-333 on the url of a block
ReplaceUrl(b) ==
    IF "url" \in DOMAIN b /\ b.url.suffix = ".wmf"
    THEN [b EXCEPT !.url.suffix = ".png"] ELSE b

ReplaceUrls(blocks) == [i \in 1..Len(blocks) |-> ReplaceUrl(blocks[i])]

\* every PNG taken for a rendered formula
HasWmfSource_Any(dir, url) == TRUE

\* latex_converter.py lines 165-170: (local.parent / f"{local.stem}.wmf").exists()
HasWmfSource(dir, url) == File(url.stem, ".wmf") \in dir

\* latex_converter.py lines 158-171: the urls convert_to_latex sends to OCR
PngUrlsIn(blocks, dir) ==
    {blocks[i].url : i \in {j \in 1..Len(blocks) :
        /\ blocks[j].type = "image"
        /\ ~blocks[j].url.abs
        /\ blocks[j].url.suffix = ".png"
        /\ HasWmfSource(dir, blocks[j].url)}}

\* latex_converter.py lines 114-127: _image_to_latex returns text
Recognized(urls, dir, ocr) ==
    {u \in urls : ocr = "reads" /\ File(u.stem, ".png") \in dir}

\* latex_converter.py lines 142-207 inside a run; ocr: "RuntimeError" and
\* "Exception" are what loading the OCR model raises, "reads" and "blind" what
\* a loaded model does with every picture
PlConvertToLatex(blocks, dir, ocr) ==
    LET urls == PngUrlsIn(blocks, dir)
        total == Cardinality(urls)
        got == Recognized(urls, dir, ocr)
    IN  IF urls = {}
        THEN [raised |-> FALSE, blocks |-> blocks,
              stats |-> [total_images |-> 0, converted |-> 0, failed |-> 0]]
        ELSE IF ocr = "RuntimeError"
        THEN [raised |-> FALSE, blocks |-> blocks,
              stats |-> [total_images |-> total, converted |-> 0, failed |-> total]]
        ELSE IF ocr = "Exception"
        THEN [raised |-> TRUE, blocks |-> blocks, stats |-> None]
        ELSE [raised |-> FALSE, blocks |-> Replaced(blocks, got),
              stats |-> [total_images |-> total, converted |-> Cardinality(got),
                         failed |-> total - Cardinality(got)]]

\* pipeline.py lines 88-106: the end of a run
Finished(blocks, dir, use, ocr) ==
    LET replaced == ReplaceUrls(blocks)
    IN  IF use THEN PlConvertToLatex(replaced, dir, ocr)
        ELSE [raised |-> FALSE, blocks |-> replaced, stats |-> None]

\* pipeline.py lines 24-106: process_docx with nothing else running
Alone(doc, use, env) ==
    LET dir0 == Extracted(doc)
        up == UploadContentImages(ParsedBlocks(doc), dir0, env.tos)
        conv == convert_wmf_to_png(dir0, env.renders)
        fin == Finished(up.blocks, conv.dir, use, env.ocr)
    IN  [raised |-> fin.raised,
         questions |-> fin.blocks,
         stats |-> [tos_upload |-> [total |-> up.total, uploaded |-> up.uploaded,
                                    skipped |-> up.skipped, failed |-> up.failed],
                    wmf_conversion |-> conv.stats,
                    latex_conversion |-> fin.stats]]

\* what a run is given: the document, use_latex and what its tools do
OcrOutcomes == {"RuntimeError", "Exception", "reads", "blind"}

PlEnvsOf(doc, use) ==
    {[tos |-> t, renders |-> rs, ocr |-> o] :
        t \in (IF "png" \in {doc[i] : i \in 1..Len(doc)} THEN BOOLEAN ELSE {FALSE}),
        rs \in SUBSET {f.stem : f \in {g \in Extracted(doc) : g.suffix = ".wmf"}},
        o \in (IF use /\ "wmf" \in {doc[i] : i \in 1..Len(doc)}
               THEN OcrOutcomes ELSE {"reads"})}

PlInputs ==
    UNION {{[doc |-> d, use |-> u, env |-> e] : e \in PlEnvsOf(d, u)} :
            d \in PlDocs, u \in BOOLEAN}

At(at, i, ok) == [at |-> at, i |-> i, ok |-> ok]

\* pipeline.py lines 58-60
NoStats ==
    [tos_upload |-> [total |-> 0, uploaded |-> 0, skipped |-> 0, failed |-> 0],
     wmf_conversion |-> [total |-> 0, success |-> 0, method |-> "None"],
     latex_conversion |-> None]

PlInit ==
    /\ \E inp \in [PlRuns -> PlInputs] :
        /\ plDoc = [r \in PlRuns |-> inp[r].doc]
        /\ plUse = [r \in PlRuns |-> inp[r].use]
        /\ plEnv = [r \in PlRuns |-> inp[r].env]
    /\ plPc = [r \in PlRuns |-> At("start", 0, 0)]
    /\ plSession = [r \in PlRuns |-> 0]
    /\ plQuestions = [r \in PlRuns |-> <<>>]
    /\ plStats = [r \in PlRuns |-> NoStats]
    /\ uploads = <<>>
    /\ _im_error_shown = FALSE

\* the doc-assets directory of a run
DirOf(r) == uploads[plSession[r]]

\* pipeline.py lines 46-55: the work directory is made and the document parsed
StartRun(r) ==
    /\ plPc[r].at = "start"
    /\ LET sid == NewSessionId(DOMAIN uploads)
       IN  /\ plSession' = [plSession EXCEPT ![r] = sid]
           /\ uploads' = [s \in (DOMAIN uploads) \cup {sid} |->
                            (IF s \in DOMAIN uploads THEN uploads[s] ELSE {})
                            \cup (IF s = sid THEN Extracted(plDoc[r]) ELSE {})]
    /\ plQuestions' = [plQuestions EXCEPT ![r] = ParsedBlocks(plDoc[r])]
    /\ plPc' = [plPc EXCEPT ![r] = At("upload", 0, 0)]
    /\ UNCHANGED <<plDoc, plUse, plEnv, plStats, _im_error_shown>>
    /\ UNCHANGED exceptPl

\* pipeline.py lines 58-84
UploadImages(r) ==
    /\ plPc[r].at = "upload"
    /\ LET up == UploadContentImages(plQuestions[r], DirOf(r), plEnv[r].tos)
       IN  /\ plQuestions' = [plQuestions EXCEPT ![r] = up.blocks]
           /\ plStats' = [plStats EXCEPT ![r].tos_upload =
                            [total |-> up.total, uploaded |-> up.uploaded,
                             skipped |-> up.skipped, failed |-> up.failed]]
    /\ plPc' = [plPc EXCEPT ![r] = At("select", 0, 0)]
    /\ UNCHANGED <<plDoc, plUse, plEnv, plSession, uploads, _im_error_shown>>
    /\ UNCHANGED exceptPl

\* image_converter.py lines 244-283: the files are listed and the first one
\* tried with ImageMagick
PlSelectMethod(r) ==
    /\ plPc[r].at = "select"
    /\ LET files == SortedWmf(DirOf(r))
       IN  IF files = <<>>
           THEN /\ plPc' = [plPc EXCEPT ![r] = At("finish", 0, 0)]
                /\ UNCHANGED <<plStats, uploads, _im_error_shown>>
           ELSE IF files[1] \notin plEnv[r].renders
           THEN /\ _im_error_shown' = TRUE
                /\ plStats' = [plStats EXCEPT ![r].wmf_conversion.total = Len(files)]
                /\ plPc' = [plPc EXCEPT ![r] = At("finish", 0, 0)]
                /\ UNCHANGED uploads
           ELSE /\ uploads' = [uploads EXCEPT ![plSession[r]] =
                                ConvertedDir(@, files[1], plEnv[r].renders)]
                /\ plStats' = [plStats EXCEPT ![r].wmf_conversion =
                                [total |-> Len(files), success |-> 0,
                                 method |-> "imagemagick"]]
                /\ plPc' = [plPc EXCEPT ![r] = At("loop", 1, 0)]
                /\ UNCHANGED _im_error_shown
    /\ UNCHANGED <<plDoc, plUse, plEnv, plSession, plQuestions>>
    /\ UNCHANGED exceptPl

\* image_converter.py lines 296-324: one turn of the loop, and after the last
\* one the count
PlConvertFile(r) ==
    /\ plPc[r].at = "loop"
    /\ LET files == SortedWmf(DirOf(r))
           i == plPc[r].i
           has == File(files[i], ".png") \in DirOf(r)
           good == has \/ files[i] \in plEnv[r].renders
           ok == plPc[r].ok + (IF good THEN 1 ELSE 0)
       IN  /\ uploads' = [uploads EXCEPT ![plSession[r]] =
                            IF has THEN @ ELSE ConvertedDir(@, files[i], plEnv[r].renders)]
           /\ _im_error_shown' = (_im_error_shown \/ ~good)
           /\ IF i < Len(files)
              THEN /\ plPc' = [plPc EXCEPT ![r] = At("loop", i + 1, ok)]
                   /\ UNCHANGED plStats
              ELSE /\ plPc' = [plPc EXCEPT ![r] = At("finish", 0, 0)]
                   /\ plStats' = [plStats EXCEPT ![r].wmf_conversion.success = ok]
    /\ UNCHANGED <<plDoc, plUse, plEnv, plSession, plQuestions>>
    /\ UNCHANGED exceptPl

\* pipeline.py lines 88-106: the urls are rewritten, the formulas read when
\* use_latex, and the result returned
FinishRun(r) ==
    /\ plPc[r].at = "finish"
    /\ LET fin == Finished(plQuestions[r], DirOf(r), plUse[r], plEnv[r].ocr)
       IN  IF fin.raised
           THEN /\ plPc' = [plPc EXCEPT ![r] = At("raised", 0, 0)]
                /\ UNCHANGED <<plQuestions, plStats>>
           ELSE /\ plPc' = [plPc EXCEPT ![r] = At("done", 0, 0)]
                /\ plQuestions' = [plQuestions EXCEPT ![r] = fin.blocks]
                /\ plStats' = [plStats EXCEPT ![r].latex_conversion = fin.stats]
    /\ UNCHANGED <<plDoc, plUse, plEnv, plSession, uploads, _im_error_shown>>
    /\ UNCHANGED exceptPl

InitPipeline == EarlierIdle /\ RwIdle /\ ExpIdle /\ TaskIdle /\ PlInit

NextPipeline ==
    \E r \in PlRuns :
        \/ StartRun(r) \/ UploadImages(r) \/ PlSelectMethod(r)
        \/ PlConvertFile(r) \/ FinishRun(r)

SpecPipeline == InitPipeline /\ [][NextPipeline]_vars

(* C22 *)
\* item i of the document of run r is a WMF picture OCR reads: the run asked
\* for LaTeX, ImageMagick passed its test on the first WMF file and rendered
\* this one, and the OCR model returned text for it
OcrSucceeds(r, i) ==
    /\ plDoc[r][i] = "wmf"
    /\ plUse[r]
    /\ plEnv[r].ocr = "reads"
    /\ SortedWmf(Extracted(plDoc[r]))[1] \in plEnv[r].renders
    /\ PlStems[MediaIndex(plDoc[r], i)] \in plEnv[r].renders

SameAsAlone(r) ==
    LET alone == Alone(plDoc[r], plUse[r], plEnv[r])
    IN  /\ plPc[r].at = "raised" => alone.raised
        /\ plPc[r].at = "done" =>
            /\ ~alone.raised
            /\ plQuestions[r] = alone.questions
            /\ plStats[r] = alone.stats

OwnDirectory ==
    \A r, q \in PlRuns :
        (r # q /\ plPc[r].at # "start" /\ plPc[q].at # "start")
            => plSession[r] # plSession[q]

====
